---- MODULE Spec2Model ----
(***************************************************************************)
(* A model of the cwidgets widget tree (src/cwidgets.py): the WidgetRoot,  *)
(* Widget, Container and its layout subclasses, and Button.  Widgets are   *)
(* numbered 1..n; every method is an operator that takes the heap (a       *)
(* record holding every object's fields) and returns the heap after the    *)
(* call.  A Python exception is the heap field err: once it is set, the    *)
(* rest of the handler is skipped, as the unwinding of the stack does      *)
(* (Then runs the rest of a handler on the heap a call returns).           *)
(* The field ret is the value the last call returned.  Geometry is left    *)
(* out: a position, a size or a cache is only known to be set or not, and  *)
(* the field scrolls is the caller's answer to the one geometric question  *)
(* the tree operations ask (does the rectangle a widget grabs lie outside  *)
(* the part a Viewport shows); the field moved is the caller's answer to   *)
(* whether a rectangle a container remembers (_oldrect is not None)        *)
(* differs from the one it has now.  The cursor position and the scrolling *)
(* position are not modelled.  The field log lists the events the call has *)
(* delivered, each with the widget it went to, in order.                   *)
(***************************************************************************)
EXTENDS Integers, Sequences, FiniteSets, TLC

VARIABLES
  kind,       \* widget -> its class
  parent,     \* Widget.parent
  children,   \* Container.children (<<>> for a leaf)
  rwidget,    \* WidgetRoot.widget
  vd,         \* Widget.valid_display
  vs,         \* Widget.valid_self
  vl,         \* Widget.valid_layout
  rvd,        \* WidgetRoot.valid_display
  rvl,        \* WidgetRoot.valid_layout
  foc,        \* Container._focused
  bfoc,       \* Button.focused
  msz,        \* Widget._minsize is not None
  psz,        \* Widget._prefsize is not None
  oldrect,    \* Container._oldrect is not None
  placed,     \* Widget.pos is not None
  grabbing,   \* Widget.grabbing is not None
  lines,      \* TextWidget._lines is not None
  pad,        \* Viewport._pad is not None
  chms,       \* SingleContainer._chms is not None
  chps,       \* SingleContainer._chps is not None
  pres,       \* MarginContainer._presizes / LinearContainer._preboxes is not None
  boxes,      \* MarginContainer._boxes / LinearContainer._boxes is not None
  slots,      \* MarginContainer._slots, GridContainer._places
  revslots,   \* MarginContainer._revslots, GridContainer._widgets
  layers,     \* StackContainer._layers
  cfg,        \* LinearContainer._rules (and the weight maps), as the key set;
              \* PlacerContainer._positions and _sizes likewise
  visibility, \* VisibilityContainer.visibility
  stale,      \* history: a size cache of the widget (_minsize, _prefsize,
              \* _preboxes, _chms, _chps) holds a value that was computed
              \* before the text of a widget below it was last changed
  pre,        \* the heap before the last operation
  last,       \* the last operation: its name, arguments, result
  hist,       \* the operations so far (kept by the history specifications)
  args,       \* the arguments of the call of a layout helper
  out         \* what the call returned

vars == <<kind, parent, children, rwidget, vd, vs, vl, rvd, rvl, foc, bfoc,
          msz, psz, oldrect, placed, grabbing, lines, pad, chms, chps, pres,
          boxes, slots, revslots, layers, cfg, visibility, stale, pre, last,
          hist, args, out>>

\* Python's None, where a widget reference is expected.
None == 0
\* No call of a layout helper has been made.
NoArgs == [fn |-> "none"]
NoOut == [err |-> "pending", r |-> <<>>]
\* The WidgetRoot, where a widget's parent is expected.
ROOT == -1
\* An absent key of StackContainer._layers.
NoLayer == -1
\* VisibilityContainer.VIS_*
VIS_VISIBLE == "VIS_VISIBLE"
VIS_HIDDEN == "VIS_HIDDEN"
VIS_COLLAPSE == "VIS_COLLAPSE"
Visibilities == {VIS_VISIBLE, VIS_HIDDEN, VIS_COLLAPSE}

\* No exception is being raised.
NoErr == "none"

LeafKinds == {"Widget", "Button"}
ContainerKinds == {"Container", "SingleContainer", "Viewport",
                   "StackContainer", "MarginContainer", "LinearContainer",
                   "PlacerContainer", "GridContainer",
                   "VisibilityContainer"}
\* The classes that inherit SingleContainer.add.
SingleKinds == {"SingleContainer", "Viewport", "VisibilityContainer"}

\* MarginContainer.POS_*: the nine regions, row by row; POS_CENTER is the
\* fifth.
POS_TOP == 2
POS_CENTER == 5
POS_BOTTOM == 8
Slots == 1..9

----------------------------------------------------------------------------
(* Sequences *)

InSeq(x, q) == \E i \in 1..Len(q) : q[i] = x

\* list.index(x): the first position of x
IndexOf(x, q) == CHOOSE i \in 1..Len(q) : q[i] = x /\ \A j \in 1..(i-1) : q[j] # x

\* list.remove(x): without the first occurrence of x
RemoveFirst(q, x) ==
  LET i == IndexOf(x, q)
  IN [j \in 1..(Len(q)-1) |-> IF j < i THEN q[j] ELSE q[j+1]]

----------------------------------------------------------------------------
(* The heap *)

Cur == [kind |-> kind, parent |-> parent, children |-> children,
        widget |-> rwidget, vd |-> vd, vs |-> vs, vl |-> vl, rvd |-> rvd,
        rvl |-> rvl, foc |-> foc, bfoc |-> bfoc, msz |-> msz, psz |-> psz,
        oldrect |-> oldrect, placed |-> placed, grabbing |-> grabbing,
        lines |-> lines, pad |-> pad, chms |-> chms, chps |-> chps,
        pres |-> pres, boxes |-> boxes, slots |-> slots,
        revslots |-> revslots, layers |-> layers, cfg |-> cfg,
        visibility |-> visibility, stale |-> stale,
        err |-> NoErr, ret |-> FALSE, scrolls |-> FALSE, moved |-> FALSE,
        log |-> <<>>, drawn |-> <<>>]

\* WidgetRoot.__init__ and, for each widget, the __init__ of its class.
Fresh(kinds) ==
  LET Ws == 1..Len(kinds)
  IN [kind |-> kinds,
      parent |-> [w \in Ws |-> None],
      children |-> [w \in Ws |-> <<>>],
      widget |-> None,
      vd |-> [w \in Ws |-> FALSE],
      vs |-> [w \in Ws |-> FALSE],
      vl |-> [w \in Ws |-> FALSE],
      rvd |-> FALSE,
      rvl |-> FALSE,
      foc |-> [w \in Ws |-> None],
      bfoc |-> [w \in Ws |-> FALSE],
      msz |-> [w \in Ws |-> FALSE],
      psz |-> [w \in Ws |-> FALSE],
      oldrect |-> [w \in Ws |-> FALSE],
      placed |-> [w \in Ws |-> FALSE],
      grabbing |-> [w \in Ws |-> FALSE],
      lines |-> [w \in Ws |-> FALSE],
      pad |-> [w \in Ws |-> FALSE],
      chms |-> [w \in Ws |-> FALSE],
      chps |-> [w \in Ws |-> FALSE],
      pres |-> [w \in Ws |-> FALSE],
      boxes |-> [w \in Ws |-> FALSE],
      slots |-> [c \in Ws |-> [w \in Ws |-> None]],
      revslots |-> [c \in Ws |-> [p \in Slots |-> None]],
      layers |-> [c \in Ws |-> [w \in Ws |-> NoLayer]],
      cfg |-> [c \in Ws |-> {}],
      visibility |-> [w \in Ws |-> VIS_VISIBLE],
      stale |-> [w \in Ws |-> FALSE],
      err |-> NoErr,
      ret |-> FALSE,
      scrolls |-> FALSE,
      moved |-> FALSE,
      log |-> <<>>,
      drawn |-> <<>>]

Widgets(s) == DOMAIN s.kind

IsContainer(s, w) == s.kind[w] \in ContainerKinds

\* An exception leaves the handler; e is the exception's class.
Raise(s, e) == [s EXCEPT !.err = e]

Failed(s) == s.err # NoErr

\* The statements F that follow a call which returned the heap s: skipped
\* when the call raised.
Then(s, F(_)) == IF Failed(s) THEN s ELSE F(s)

\* except e: pass
Catch(s, e) == IF s.err = e THEN [s EXCEPT !.err = NoErr] ELSE s

\* The widgets on the parent chain of x, x excluded (ROOT included when the
\* chain ends there).
RECURSIVE Ancestors(_, _, _)
Ancestors(s, x, fuel) ==
  IF fuel = 0 \/ x \notin Widgets(s) \/ s.parent[x] = None THEN {}
  ELSE {s.parent[x]} \cup Ancestors(s, s.parent[x], fuel - 1)

AncestorsOf(s, x) == Ancestors(s, x, Cardinality(Widgets(s)) + 1)

----------------------------------------------------------------------------
(* invalidate_layout *)

RECURSIVE invalidate_layout(_, _)

WidgetRoot_invalidate_layout(s) ==
  IF ~ s.rvl THEN s
  ELSE invalidate_layout([s EXCEPT !.rvl = FALSE], s.widget)

Widget_invalidate_layout(s, w) ==
  Then(IF s.vl[w]
       THEN invalidate_layout([s EXCEPT !.vl[w] = FALSE], s.parent[w])
       ELSE [s EXCEPT !.vl[w] = FALSE],
       LAMBDA t : [t EXCEPT !.msz[w] = FALSE, !.psz[w] = FALSE,
                            !.stale[w] = FALSE])

Container_invalidate_layout(s, w) ==
  Then(Widget_invalidate_layout(s, w),
       LAMBDA t : [t EXCEPT !.oldrect[w] = FALSE])

SingleContainer_invalidate_layout(s, w) ==
  Then(Container_invalidate_layout(s, w),
       LAMBDA t : [t EXCEPT !.chms[w] = FALSE, !.chps[w] = FALSE])

Viewport_invalidate_layout(s, w) ==
  Then(SingleContainer_invalidate_layout(s, w),
       LAMBDA t : [t EXCEPT !.pad[w] = FALSE])

\* MarginContainer.invalidate_layout, LinearContainer.invalidate_layout,
\* GridContainer.invalidate_layout
Boxed_invalidate_layout(s, w) ==
  Then(Container_invalidate_layout(s, w),
       LAMBDA t : [t EXCEPT !.pres[w] = FALSE, !.boxes[w] = FALSE])

\* x.invalidate_layout(), dispatched on the class of x
invalidate_layout(s, x) ==
  IF Failed(s) THEN s
  ELSE IF x = None THEN Raise(s, "AttributeError")
  ELSE IF x = ROOT THEN WidgetRoot_invalidate_layout(s)
  ELSE IF s.kind[x] = "Viewport" THEN Viewport_invalidate_layout(s, x)
  ELSE IF s.kind[x] \in {"SingleContainer", "VisibilityContainer"}
       THEN SingleContainer_invalidate_layout(s, x)
  ELSE IF s.kind[x] \in {"MarginContainer", "LinearContainer", "GridContainer"}
       THEN Boxed_invalidate_layout(s, x)
  ELSE IF IsContainer(s, x) THEN Container_invalidate_layout(s, x)
  ELSE Widget_invalidate_layout(s, x)

----------------------------------------------------------------------------
(* remove, delete, add *)

WidgetRoot_remove(s, w) ==
  IF w = s.widget
  THEN [s EXCEPT !.widget = None, !.parent[w] = None]
  ELSE s

Container_remove(s, c, w) ==
  IF ~ InSeq(w, s.children[c]) THEN Raise(s, "ValueError")
  ELSE invalidate_layout(
         [s EXCEPT !.children[c] = RemoveFirst(@, w),
                   !.foc[c] = IF @ = w THEN None ELSE @,
                   !.parent[w] = None], c)

StackContainer_remove(s, c, w) ==
  Then(Container_remove(s, c, w),
       LAMBDA t : IF t.layers[c][w] = NoLayer THEN Raise(t, "KeyError")
                  ELSE [t EXCEPT !.layers[c][w] = NoLayer])

MarginContainer_remove(s, c, w) ==
  Then(Container_remove(s, c, w),
       LAMBDA t : IF t.slots[c][w] = None THEN Raise(t, "KeyError")
                  ELSE IF t.revslots[c][t.slots[c][w]] = None
                  THEN Raise(t, "KeyError")
                  ELSE [t EXCEPT !.revslots[c][t.slots[c][w]] = None,
                                 !.slots[c][w] = None])

LinearContainer_remove(s, c, w) ==
  Then(Container_remove(s, c, w),
       LAMBDA t : IF w \notin t.cfg[c] THEN Raise(t, "KeyError")
                  ELSE [t EXCEPT !.cfg[c] = @ \ {w}])

\* StackContainer.remove(self, widget); del self._positions[widget];
\* del self._sizes[widget]
PlacerContainer_remove(s, c, w) ==
  Then(StackContainer_remove(s, c, w),
       LAMBDA t : IF w \notin t.cfg[c] THEN Raise(t, "KeyError")
                  ELSE [t EXCEPT !.cfg[c] = @ \ {w}])

\* Container.remove(self, widget); pos = self._places.pop(widget);
\* del self._widgets[pos]
GridContainer_remove(s, c, w) ==
  Then(Container_remove(s, c, w),
       LAMBDA t : IF t.slots[c][w] = None THEN Raise(t, "KeyError")
                  ELSE IF t.revslots[c][t.slots[c][w]] = None
                  THEN Raise([t EXCEPT !.slots[c][w] = None], "KeyError")
                  ELSE [t EXCEPT !.revslots[c][t.slots[c][w]] = None,
                                 !.slots[c][w] = None])

\* p.remove(w), dispatched on the class of p
remove(s, p, w) ==
  IF Failed(s) THEN s
  ELSE IF p = None THEN Raise(s, "AttributeError")
  ELSE IF p = ROOT THEN WidgetRoot_remove(s, w)
  ELSE IF s.kind[p] = "StackContainer" THEN StackContainer_remove(s, p, w)
  ELSE IF s.kind[p] = "MarginContainer" THEN MarginContainer_remove(s, p, w)
  ELSE IF s.kind[p] = "LinearContainer" THEN LinearContainer_remove(s, p, w)
  ELSE IF s.kind[p] = "PlacerContainer" THEN PlacerContainer_remove(s, p, w)
  ELSE IF s.kind[p] = "GridContainer" THEN GridContainer_remove(s, p, w)
  ELSE IF IsContainer(s, p) THEN Container_remove(s, p, w)
  ELSE Raise(s, "AttributeError")

Widget__delete_layout(s, w) ==
  IF Failed(s) THEN s
  ELSE IF s.parent[w] # None THEN remove(s, s.parent[w], w)
  ELSE s

Widget_delete(s, w) == Widget__delete_layout(s, w)

WidgetRoot_add(s, w) ==
  IF w = s.widget THEN s
  ELSE Then(Widget_delete(s, w),
            LAMBDA t : [t EXCEPT !.widget = w, !.parent[w] = ROOT])

Container_add(s, c, w) ==
  Then(Widget__delete_layout(s, w),
       LAMBDA t : invalidate_layout(
                    [t EXCEPT !.children[c] = Append(@, w), !.parent[w] = c],
                    c))

RECURSIVE RemoveAll(_, _)
\* while self.children: self.remove(self.children[0])
RemoveAll(s, c) ==
  IF Failed(s) \/ s.children[c] = <<>> THEN s
  ELSE RemoveAll(remove(s, c, s.children[c][1]), c)

SingleContainer_add(s, c, w) == Container_add(RemoveAll(s, c), c, w)

RECURSIVE RemoveEach(_, _, _)
\* for i in self.children[:]: self.remove(i)
RemoveEach(s, c, q) ==
  IF Failed(s) \/ q = <<>> THEN s
  ELSE RemoveEach(remove(s, c, Head(q)), c, Tail(q))

Container_clear(s, c) == RemoveEach(s, c, s.children[c])

\* list.sort(key=self._layers.__getitem__): a stable insertion sort
RECURSIVE SortByLayer(_, _)
SortByLayer(q, lay) ==
  IF q = <<>> THEN <<>>
  ELSE LET r == SortByLayer(SubSeq(q, 1, Len(q) - 1), lay)
           x == q[Len(q)]
           k == Cardinality({i \in 1..Len(r) : lay[r[i]] <= lay[x]})
       IN SubSeq(r, 1, k) \o <<x>> \o SubSeq(r, k + 1, Len(r))

\* self._layers[widget] = layer; self.children.sort(...)
StackContainer_set_layer(s, c, w, layer) ==
  LET lay == [s.layers[c] EXCEPT ![w] = layer]
  IN IF \E x \in Widgets(s) : InSeq(x, s.children[c]) /\ lay[x] = NoLayer
     THEN Raise([s EXCEPT !.layers[c] = lay], "KeyError")
     ELSE [s EXCEPT !.layers[c] = lay, !.children[c] = SortByLayer(@, lay)]

StackContainer_add(s, c, w, layer) ==
  Then(Container_add(s, c, w),
       LAMBDA t : StackContainer_set_layer(t, c, w, layer))

\* MarginContainer.add, were the occupant of the slot left in place
MarginContainer_evict_None(s, c, slot) == s

\* try: self.remove(self._revslots[slot])
\* except KeyError: pass
MarginContainer_evict(s, c, slot) ==
  IF s.revslots[c][slot] = None THEN s
  ELSE Catch(remove(s, c, s.revslots[c][slot]), "KeyError")

MarginContainer_add(s, c, w, slot) ==
  Then(Container_add(MarginContainer_evict(s, c, slot), c, w),
       LAMBDA t : [t EXCEPT !.slots[c][w] = slot, !.revslots[c][slot] = w])

LinearContainer_add(s, c, w) ==
  Container_add([s EXCEPT !.cfg[c] = @ \cup {w}], c, w)

\* self._positions[widget] = config['pos']; self._sizes[widget] = ...;
\* return StackContainer.add(self, widget, **config)
PlacerContainer_add(s, c, w, layer) ==
  StackContainer_add([s EXCEPT !.cfg[c] = @ \cup {w}], c, w, layer)

\* try: self.remove(self._widgets[pos])
\* except KeyError: pass
GridContainer_evict(s, c, pos) ==
  IF s.revslots[c][pos] = None THEN s
  ELSE Catch(remove(s, c, s.revslots[c][pos]), "KeyError")

GridContainer_add(s, c, w, pos) ==
  Then(GridContainer_evict(s, c, pos),
       LAMBDA t : Container_add([t EXCEPT !.revslots[c][pos] = w,
                                          !.slots[c][w] = pos], c, w))

\* c.add(w, **config), dispatched on the class of c; config is the slot of
\* a MarginContainer, the layer of a StackContainer or PlacerContainer, the
\* cell of a GridContainer.
add(s, c, w, config) ==
  IF Failed(s) THEN s
  ELSE IF c = ROOT THEN WidgetRoot_add(s, w)
  ELSE IF s.kind[c] \in SingleKinds THEN SingleContainer_add(s, c, w)
  ELSE IF s.kind[c] = "StackContainer" THEN StackContainer_add(s, c, w, config)
  ELSE IF s.kind[c] = "MarginContainer" THEN MarginContainer_add(s, c, w, config)
  ELSE IF s.kind[c] = "LinearContainer" THEN LinearContainer_add(s, c, w)
  ELSE IF s.kind[c] = "PlacerContainer" THEN PlacerContainer_add(s, c, w, config)
  ELSE IF s.kind[c] = "GridContainer" THEN GridContainer_add(s, c, w, config)
  ELSE IF IsContainer(s, c) THEN Container_add(s, c, w)
  ELSE Raise(s, "AttributeError")

----------------------------------------------------------------------------
(* invalidate *)

RECURSIVE invalidate(_, _, _, _)
RECURSIVE InvalidateEach(_, _)

\* for i in q: i.invalidate(True)
InvalidateEach(s, q) ==
  IF Failed(s) \/ q = <<>> THEN s
  ELSE InvalidateEach(invalidate(s, Head(q), TRUE, None), Tail(q))

WidgetRoot_invalidate(s, rec, child) ==
  IF ~ rec /\ ~ s.rvd THEN s
  ELSE invalidate([s EXCEPT !.rvd = FALSE], s.widget, rec, None)

\* Widget.invalidate that tells the parent whether or not valid_display
\* was set (C4 does not hold for it).
Widget_invalidate_Always(s, w, rec, child) ==
  IF ~ rec
  THEN invalidate([s EXCEPT !.vd[w] = FALSE,
                            !.vs[w] = IF child = None THEN FALSE ELSE @],
                  s.parent[w], FALSE, w)
  ELSE [s EXCEPT !.vd[w] = FALSE,
                 !.vs[w] = IF child = None THEN FALSE ELSE @]

Widget_invalidate(s, w, rec, child) ==
  IF s.vd[w] /\ ~ rec
  THEN invalidate([s EXCEPT !.vd[w] = FALSE,
                            !.vs[w] = IF child = None THEN FALSE ELSE @],
                  s.parent[w], FALSE, w)
  ELSE [s EXCEPT !.vd[w] = FALSE,
                 !.vs[w] = IF child = None THEN FALSE ELSE @]

Container_invalidate(s, w, rec, child) ==
  Then(Widget_invalidate(s, w, rec, child),
       LAMBDA t : IF rec THEN InvalidateEach(t, t.children[w]) ELSE t)

\* Viewport.invalidate that hands the child on to Widget.invalidate (C5
\* does not hold for it).
Viewport_invalidate_Child(s, w, rec, child) ==
  Widget_invalidate(s, w, rec, child)

Viewport_invalidate(s, w, rec, child) == Widget_invalidate(s, w, rec, None)

\* StackContainer.invalidate without the invalidation of the layers above
\* (C3 does not hold for it).
StackContainer_invalidate_NoLayers(s, w, rec, child) ==
  Container_invalidate(s, w, rec, child)

StackContainer_invalidate(s, w, rec, child) ==
  IF InSeq(child, s.children[w])
  THEN Then(Container_invalidate(s, w, rec, child),
            LAMBDA t : InvalidateEach(
                         t, SubSeq(s.children[w],
                                   IndexOf(child, s.children[w]) + 1,
                                   Len(s.children[w]))))
  ELSE Container_invalidate(s, w, TRUE, child)

RECURSIVE MarginInvalidateEach(_, _, _)
\* for ch in self.children:
\*     if self._slots[ch] == self.POS_CENTER: continue
\*     ch.invalidate(True)
MarginInvalidateEach(s, w, q) ==
  IF Failed(s) \/ q = <<>> THEN s
  ELSE IF s.slots[w][Head(q)] = None THEN Raise(s, "KeyError")
  ELSE MarginInvalidateEach(
         IF s.slots[w][Head(q)] = POS_CENTER THEN s
         ELSE invalidate(s, Head(q), TRUE, None),
         w, Tail(q))

MarginContainer_invalidate(s, w, rec, child) ==
  Then(Container_invalidate(s, w, rec, child),
       LAMBDA t : IF child # None THEN t
                  ELSE MarginInvalidateEach(t, w, t.children[w]))

\* x.invalidate(rec, child), dispatched on the class of x
invalidate(s, x, rec, child) ==
  IF Failed(s) THEN s
  ELSE IF x = None THEN Raise(s, "AttributeError")
  ELSE IF x = ROOT THEN WidgetRoot_invalidate(s, rec, child)
  ELSE IF s.kind[x] = "Viewport" THEN Viewport_invalidate(s, x, rec, child)
  ELSE IF s.kind[x] \in {"StackContainer", "PlacerContainer"}
       THEN StackContainer_invalidate(s, x, rec, child)
  ELSE IF s.kind[x] = "MarginContainer" THEN MarginContainer_invalidate(s, x, rec, child)
  ELSE IF IsContainer(s, x) THEN Container_invalidate(s, x, rec, child)
  ELSE Widget_invalidate(s, x, rec, child)

----------------------------------------------------------------------------
(* draw *)

RECURSIVE draw(_, _)
RECURSIVE DrawEach(_, _)

\* for i in q: i.draw(win)
DrawEach(s, q) ==
  IF Failed(s) \/ q = <<>> THEN s
  ELSE DrawEach(draw(s, Head(q)), Tail(q))

\* Viewport.draw_self: the child is drawn to the pad, after a recursive
\* invalidation when the pad is new.
Viewport_draw_self(s, w) ==
  IF s.children[w] = <<>>
  THEN IF s.placed[w] THEN [s EXCEPT !.pad[w] = TRUE]
       ELSE Raise([s EXCEPT !.pad[w] = TRUE], "TypeError")
  ELSE Then(draw(IF s.pad[w] THEN s
                 ELSE invalidate([s EXCEPT !.pad[w] = TRUE],
                                 s.children[w][1], TRUE, None),
                 s.children[w][1]),
            LAMBDA t : IF t.placed[w] THEN t ELSE Raise(t, "TypeError"))

\* x.draw_self(win): only a Viewport's changes the tree
draw_self(s, w) ==
  IF s.kind[w] = "Viewport" THEN Viewport_draw_self(s, w) ELSE s

\* Widget.draw without the valid_self branch: the widget is marked as drawn
\* although its own content is not (C2 does not hold for it).
Widget_draw_NoSelf(s, w) ==
  IF s.vd[w] THEN s ELSE [s EXCEPT !.vd[w] = TRUE]

\* drawn lists the widgets whose draw_self() the call has entered, in order.
Widget_draw(s, w) ==
  IF s.vd[w] THEN s
  ELSE IF ~ s.vs[w]
       THEN draw_self([s EXCEPT !.vd[w] = TRUE, !.vs[w] = TRUE,
                                !.drawn = Append(@, w)], w)
  ELSE [s EXCEPT !.vd[w] = TRUE]

\* A draw() that draws the children before the container itself
Container_draw_ChildrenFirst(s, w) ==
  IF s.vd[w] THEN s
  ELSE Then(DrawEach(s, s.children[w]), LAMBDA t : Widget_draw(t, w))

Container_draw(s, w) ==
  IF s.vd[w] THEN s
  ELSE Then(Widget_draw(s, w), LAMBDA t : DrawEach(t, t.children[w]))

\* if self.visibility != self.VIS_VISIBLE or self.valid_display: return
\* self.draw_inner(win)
VisibilityContainer_draw(s, w) ==
  IF s.visibility[w] # VIS_VISIBLE \/ s.vd[w] THEN s
  ELSE Container_draw(s, w)

\* x.draw(win), dispatched on the class of x
draw(s, x) ==
  IF Failed(s) THEN s
  ELSE IF x = None THEN Raise(s, "AttributeError")
  ELSE IF s.kind[x] = "VisibilityContainer" THEN VisibilityContainer_draw(s, x)
  ELSE IF IsContainer(s, x) THEN Container_draw(s, x)
  ELSE Widget_draw(s, x)

WidgetRoot_redraw(s) ==
  Then(IF s.widget # None THEN draw(s, s.widget) ELSE s,
       LAMBDA t : [t EXCEPT !.rvd = TRUE])

----------------------------------------------------------------------------
(* minsize, prefsize *)

RECURSIVE minsize(_, _)
RECURSIVE prefsize(_, _)
RECURSIVE MinEach(_, _)
RECURSIVE PrefEach(_, _)
RECURSIVE BothEach(_, _, _)

\* for i in q: i.minsize
MinEach(s, q) ==
  IF Failed(s) \/ q = <<>> THEN s ELSE MinEach(minsize(s, Head(q)), Tail(q))

\* for i in q: i.prefsize
PrefEach(s, q) ==
  IF Failed(s) \/ q = <<>> THEN s ELSE PrefEach(prefsize(s, Head(q)), Tail(q))

\* for w in q: w.prefsize, w.minsize, self._rules[w]
BothEach(s, c, q) ==
  IF Failed(s) \/ q = <<>> THEN s
  ELSE BothEach(
         Then(minsize(prefsize(s, Head(q)), Head(q)),
              LAMBDA t : IF t.kind[c] = "LinearContainer" /\ Head(q) \notin t.cfg[c]
                         THEN Raise(t, "KeyError") ELSE t),
         c, Tail(q))

\* The sizes c computes from its children's minsize and prefsize come from
\* a cache that is stale (a collapsed VisibilityContainer reads none).
ReadStale(s, c) ==
  /\ ~ (s.kind[c] = "VisibilityContainer" /\ s.visibility[c] = VIS_COLLAPSE)
  /\ \E i \in 1..Len(s.children[c]) : s.stale[s.children[c][i]]

\* The widgets that are keys of a MarginContainer's _slots, in some order.
RECURSIVE SetToSeq(_)
SetToSeq(S) ==
  IF S = {} THEN <<>>
  ELSE LET x == CHOOSE y \in S : \A z \in S : y <= z
       IN <<x>> \o SetToSeq(S \ {x})

SlotKeys(s, c) == SetToSeq({w \in Widgets(s) : s.slots[c][w] # None})

\* The text setter, as getprefsize, _update_indents and draw_self call it
\* (self.text = self._text): the first call splits the lines and
\* invalidates the layout.
TextWidget_text_refresh(s, w) ==
  IF Failed(s) \/ s.lines[w] THEN s
  ELSE invalidate_layout([s EXCEPT !.lines[w] = TRUE], w)

MarginContainer__make_preboxes(s, c) ==
  IF Failed(s) \/ s.pres[c] THEN s
  ELSE Then(BothEach(s, c, IF s.children[c] = <<>> THEN <<>>
                           ELSE SlotKeys(s, c)),
            LAMBDA t : [t EXCEPT !.msz[c] = TRUE, !.psz[c] = TRUE,
                                 !.pres[c] = TRUE,
                                 !.stale[c] = @ \/ ReadStale(t, c)])

LinearContainer__make_preboxes(s, c) ==
  IF Failed(s) \/ s.pres[c] THEN s
  ELSE Then(BothEach([s EXCEPT !.pres[c] = TRUE], c, s.children[c]),
            LAMBDA t : [t EXCEPT !.msz[c] = TRUE, !.psz[c] = TRUE,
                                 !.stale[c] = @ \/ ReadStale(t, c)])

\* VisibilityContainer.getprefsize: (0, 0) when collapsed
VisibilityContainer_getprefsize(s, w) ==
  IF s.visibility[w] = VIS_COLLAPSE THEN s ELSE PrefEach(s, s.children[w])

\* VisibilityContainer.getminsize: (0, 0) when collapsed
VisibilityContainer_getminsize(s, w) ==
  IF s.visibility[w] = VIS_COLLAPSE THEN s ELSE MinEach(s, s.children[w])

\* x.getprefsize(), dispatched on the class of x
getprefsize(s, w) ==
  IF s.kind[w] = "Widget" THEN s
  ELSE IF s.kind[w] = "VisibilityContainer"
       THEN VisibilityContainer_getprefsize(s, w)
  ELSE IF s.kind[w] = "Button" THEN TextWidget_text_refresh(s, w)
  ELSE IF s.kind[w] = "MarginContainer" THEN MarginContainer__make_preboxes(s, w)
  ELSE IF s.kind[w] = "LinearContainer" THEN LinearContainer__make_preboxes(s, w)
  ELSE PrefEach(s, s.children[w])

\* x.getminsize(), dispatched on the class of x
getminsize(s, w) ==
  IF s.kind[w] \in LeafKinds THEN prefsize(s, w)
  ELSE IF s.kind[w] = "VisibilityContainer"
       THEN VisibilityContainer_getminsize(s, w)
  ELSE IF s.kind[w] = "MarginContainer" THEN MarginContainer__make_preboxes(s, w)
  ELSE IF s.kind[w] = "LinearContainer" THEN LinearContainer__make_preboxes(s, w)
  ELSE MinEach(s, s.children[w])

\* The property Widget.prefsize
prefsize(s, w) ==
  IF Failed(s) \/ s.psz[w] THEN s
  ELSE Then(getprefsize(s, w),
            LAMBDA t : [t EXCEPT !.psz[w] = TRUE,
                                 !.stale[w] = @ \/ ReadStale(t, w)])

\* The property Widget.minsize
minsize(s, w) ==
  IF Failed(s) \/ s.msz[w] THEN s
  ELSE Then(getminsize(s, w),
            LAMBDA t : [t EXCEPT !.msz[w] = TRUE,
                                 !.stale[w] = @ \/ ReadStale(t, w)])

SingleContainer__child_minsize(s, c) ==
  IF Failed(s) \/ s.chms[c] THEN s
  ELSE Then(IF s.children[c] = <<>> THEN s ELSE minsize(s, s.children[c][1]),
            LAMBDA t : [t EXCEPT !.chms[c] = TRUE,
                                 !.stale[c] = @ \/ ReadStale(t, c)])

SingleContainer__child_prefsize(s, c) ==
  IF Failed(s) \/ s.chps[c] THEN s
  ELSE Then(IF s.children[c] = <<>> THEN s ELSE prefsize(s, s.children[c][1]),
            LAMBDA t : [t EXCEPT !.chps[c] = TRUE,
                                 !.stale[c] = @ \/ ReadStale(t, c)])

----------------------------------------------------------------------------
(* grab_input *)

RECURSIVE grab_input(_, _, _, _)

\* rect: whether the rect argument is not None
Widget_grab_input(s, w, rect, child) ==
  IF Failed(s) THEN s
  ELSE IF rect /\ child = None /\ ~ s.placed[w] THEN Raise(s, "TypeError")
  ELSE grab_input([s EXCEPT !.grabbing[w] = rect /\ child = None],
                  s.parent[w], rect, w)

\* Viewport.grab_input: the scrolling position follows the rectangle, and
\* on_scroll invalidates the viewport when it has moved.
Viewport_grab_input(s, w, rect, child) ==
  IF ~ s.placed[w] THEN Raise(s, "TypeError")
  ELSE Widget_grab_input(
         IF rect /\ s.scrolls THEN invalidate(s, w, FALSE, None) ELSE s,
         w, rect, child)

\* x.grab_input(rect, pos, child, full), dispatched on the class of x
grab_input(s, x, rect, child) ==
  IF Failed(s) THEN s
  ELSE IF x = None THEN Raise(s, "AttributeError")
  ELSE IF x = ROOT THEN s
  ELSE IF s.kind[x] = "Viewport" THEN Viewport_grab_input(s, x, rect, child)
  ELSE Widget_grab_input(s, x, rect, child)

----------------------------------------------------------------------------
(* make *)

RECURSIVE make(_, _)
RECURSIVE MakeEach(_, _)
RECURSIVE InvalidateLayoutEach(_, _)

\* for i in q: i.make()
MakeEach(s, q) ==
  IF Failed(s) \/ q = <<>> THEN s ELSE MakeEach(make(s, Head(q)), Tail(q))

\* for i in q: i.invalidate_layout()
InvalidateLayoutEach(s, q) ==
  IF Failed(s) \/ q = <<>> THEN s
  ELSE InvalidateLayoutEach(invalidate_layout(s, Head(q)), Tail(q))

Widget_make(s, w) ==
  IF Failed(s) THEN s
  ELSE invalidate(
         IF ~ s.grabbing[w] THEN [s EXCEPT !.vl[w] = TRUE]
         ELSE IF ~ s.placed[w] THEN Raise([s EXCEPT !.vl[w] = TRUE], "TypeError")
         ELSE grab_input([s EXCEPT !.vl[w] = TRUE], w, TRUE, None),
         w, FALSE, None)

\* TextWidget.make
TextWidget_make(s, w) ==
  Then(TextWidget_text_refresh(Widget_make(s, w), w),
       LAMBDA t : IF ~ t.placed[w] THEN Raise(t, "TypeError")
                  ELSE prefsize(t, w))

\* The widgets of q get a position and a size.
Place(s, q) ==
  [s EXCEPT !.placed = [w \in DOMAIN @ |-> @[w] \/ InSeq(w, q)]]

\* Container.relayout
Container_relayout(s, c) ==
  IF s.children[c] # <<>> /\ ~ s.placed[c] THEN Raise(s, "TypeError")
  ELSE Then(PrefEach(s, s.children[c]), LAMBDA t : Place(t, t.children[c]))

\* Viewport.relayout: the scrolling position is clamped, and on_scroll
\* invalidates the viewport when that has moved it.
Viewport_relayout(s, c) ==
  Then(SingleContainer__child_minsize(SingleContainer__child_prefsize(s, c), c),
       LAMBDA t : IF t.children[c] # <<>> /\ ~ t.placed[c]
                  THEN Raise(t, "TypeError")
                  ELSE IF t.scrolls
                  THEN invalidate(Place(t, t.children[c]), c, FALSE, None)
                  ELSE Place(t, t.children[c]))

StackContainer_relayout(s, c) ==
  Then(prefsize(s, c), LAMBDA t : Place(t, t.children[c]))

\* MarginContainer.relayout, with _make_boxes
MarginContainer_relayout(s, c) ==
  IF s.boxes[c] THEN s
  ELSE Then(MarginContainer__make_preboxes(s, c),
            LAMBDA t : IF ~ t.placed[c] THEN Raise(t, "TypeError")
                       ELSE Place([t EXCEPT !.boxes[c] = TRUE], SlotKeys(t, c)))

\* LinearContainer.relayout, with _make_boxes
LinearContainer_relayout(s, c) ==
  IF s.boxes[c] THEN s
  ELSE Then(LinearContainer__make_preboxes(s, c),
            LAMBDA t :
              IF t.children[c] = <<>> THEN [t EXCEPT !.boxes[c] = TRUE]
              ELSE IF \E w \in Widgets(t) :
                        InSeq(w, t.children[c]) /\ w \notin t.cfg[c]
                   THEN Raise(t, "KeyError")
              ELSE IF ~ t.placed[c] THEN Raise(t, "TypeError")
              ELSE Place([t EXCEPT !.boxes[c] = TRUE], t.children[c]))

\* x.relayout(), dispatched on the class of x
relayout(s, c) ==
  IF Failed(s) THEN s
  ELSE IF s.kind[c] = "Viewport" THEN Viewport_relayout(s, c)
  ELSE IF s.kind[c] = "StackContainer" THEN StackContainer_relayout(s, c)
  ELSE IF s.kind[c] = "MarginContainer" THEN MarginContainer_relayout(s, c)
  ELSE IF s.kind[c] = "LinearContainer" THEN LinearContainer_relayout(s, c)
  ELSE Container_relayout(s, c)

\* Container.make: the layout is redone when the rectangle is not the
\* remembered one.
Container_make(s, c) ==
  IF s.vl[c] THEN s
  ELSE IF ~ s.placed[c] THEN Raise(s, "TypeError")
  ELSE Widget_make(
         IF s.oldrect[c] /\ ~ s.moved THEN s
         ELSE Then(Then(relayout(InvalidateLayoutEach(s, s.children[c]), c),
                        LAMBDA t : MakeEach(t, t.children[c])),
                   LAMBDA t : [t EXCEPT !.oldrect[c] = TRUE]),
         c)

\* if self.visibility == self.VIS_COLLAPSE: return
\* SingleContainer.make(self)
VisibilityContainer_make(s, c) ==
  IF s.visibility[c] = VIS_COLLAPSE THEN s ELSE Container_make(s, c)

\* x.make(), dispatched on the class of x
make(s, x) ==
  IF Failed(s) THEN s
  ELSE IF x = None THEN Raise(s, "AttributeError")
  ELSE IF s.kind[x] = "VisibilityContainer" THEN VisibilityContainer_make(s, x)
  ELSE IF IsContainer(s, x) THEN Container_make(s, x)
  ELSE IF s.kind[x] = "Button" THEN TextWidget_make(s, x)
  ELSE Widget_make(s, x)

WidgetRoot_make(s) ==
  Then(IF s.widget = None THEN s
       ELSE make([s EXCEPT !.placed[s.widget] = TRUE], s.widget),
       LAMBDA t : invalidate([t EXCEPT !.rvl = TRUE], ROOT, FALSE, None))

----------------------------------------------------------------------------
(* event, focus *)

\* The events: the Tab key, the back tab key, the Return key, any other key
\* that no widget of the model scrolls on, and the two FocusEvents.
KeyEvents == {"Tab", "BTab", "Return", "Key"}
Events == KeyEvents \cup {"FocusIn", "FocusOut"}

RECURSIVE event(_, _, _)
RECURSIVE focus(_, _, _)
RECURSIVE FocusLoop(_, _, _, _)

\* return v
Return(s, v) == IF Failed(s) THEN s ELSE [s EXCEPT !.ret = v]

\* Widget.event; the event is noted in the log.
Widget_event(s, w, ev) ==
  Return(IF ev = "FocusOut"
         THEN [s EXCEPT !.grabbing[w] = FALSE, !.log = Append(@, <<w, ev>>)]
         ELSE [s EXCEPT !.log = Append(@, <<w, ev>>)],
         FALSE)

\* Button._set_focused, with on_focuschange
Button__set_focused(s, w, state) ==
  IF Failed(s) \/ s.bfoc[w] = state THEN s
  ELSE invalidate(
         IF ~ state THEN [s EXCEPT !.bfoc[w] = state]
         ELSE IF ~ s.placed[w] THEN Raise([s EXCEPT !.bfoc[w] = state], "TypeError")
         ELSE grab_input([s EXCEPT !.bfoc[w] = state], w, TRUE, None),
         w, FALSE, None)

Button_event(s, w, ev) ==
  IF ev = "Return" THEN Return(Widget_event(s, w, ev), TRUE)
  ELSE IF ev \in {"FocusIn", "FocusOut"}
       THEN Return(Button__set_focused(Widget_event(s, w, ev), w, ev = "FocusIn"),
                   FALSE)
  ELSE Widget_event(s, w, ev)

Container__refocus(s, c, new) ==
  IF Failed(s) \/ new = s.foc[c] THEN s
  ELSE Then(Then(IF s.foc[c] # None THEN event(s, s.foc[c], "FocusOut") ELSE s,
                 LAMBDA t : [t EXCEPT !.foc[c] = new]),
            LAMBDA t : IF new = None THEN t ELSE event(t, new, "FocusIn"))

\* The loop of Container.focus, at index idx
FocusLoop(s, c, rev, idx) ==
  Then(focus(s, s.children[c][idx], rev),
       LAMBDA t :
         IF t.ret \/ (IF rev THEN idx - 1 ELSE idx + 1)
                       \in {0, Len(t.children[c]) + 1}
         THEN Return(Container__refocus(
                       t, c, IF t.ret THEN t.children[c][idx] ELSE None),
                     t.ret)
         ELSE FocusLoop(t, c, rev, IF rev THEN idx - 1 ELSE idx + 1))

\* A Container.focus that starts at the first (last) child whatever child
\* is focused
Container_focus_Restart(s, c, rev) ==
  IF s.children[c] = <<>> THEN Return(s, FALSE)
  ELSE FocusLoop(s, c, rev, IF rev THEN Len(s.children[c]) ELSE 1)

Container_focus(s, c, rev) ==
  IF s.children[c] = <<>> THEN Return(s, FALSE)
  ELSE IF s.foc[c] # None /\ ~ InSeq(s.foc[c], s.children[c])
       THEN Raise(s, "ValueError")
  ELSE FocusLoop(s, c, rev,
                 IF s.foc[c] # None THEN IndexOf(s.foc[c], s.children[c])
                 ELSE IF rev THEN Len(s.children[c]) ELSE 1)

\* VisibilityContainer.focus: a collapsed container drops its focus
VisibilityContainer_focus(s, c, rev) ==
  IF s.visibility[c] = VIS_COLLAPSE
  THEN Return(Container__refocus(s, c, None), FALSE)
  ELSE Container_focus(s, c, rev)

\* A Button.focus that accepts the focus whatever its state
Button_focus_Always(s, w, rev) == Return(s, TRUE)

Button_focus(s, w, rev) == Return(s, ~ s.bfoc[w])

Widget_focus(s, w, rev) == Return(s, FALSE)

\* x.focus(rev), dispatched on the class of x
focus(s, x, rev) ==
  IF Failed(s) THEN s
  ELSE IF x = None THEN Raise(s, "AttributeError")
  ELSE IF s.kind[x] = "VisibilityContainer" THEN VisibilityContainer_focus(s, x, rev)
  ELSE IF IsContainer(s, x) THEN Container_focus(s, x, rev)
  ELSE IF s.kind[x] = "Button" THEN Button_focus(s, x, rev)
  ELSE Widget_focus(s, x, rev)

\* A Container.event that hands the other events to the first child
Container_event_First(s, c, ev) ==
  IF ev \in {"FocusIn", "FocusOut"}
  THEN Return(Container__refocus(Widget_event(s, c, ev), c,
                                 IF ev = "FocusOut" THEN None ELSE s.foc[c]),
              TRUE)
  ELSE IF ev \in {"Tab", "BTab"}
       THEN focus(Widget_event(s, c, ev), c, ev = "BTab")
  ELSE IF s.children[c] # <<>>
       THEN event(Widget_event(s, c, ev), s.children[c][1], ev)
  ELSE Widget_event(s, c, ev)

Container_event(s, c, ev) ==
  IF ev \in {"FocusIn", "FocusOut"}
  THEN Return(Container__refocus(Widget_event(s, c, ev), c,
                                 IF ev = "FocusOut" THEN None ELSE s.foc[c]),
              TRUE)
  ELSE IF ev \in {"Tab", "BTab"}
       THEN focus(Widget_event(s, c, ev), c, ev = "BTab")
  ELSE IF s.foc[c] # None THEN event(Widget_event(s, c, ev), s.foc[c], ev)
  ELSE Widget_event(s, c, ev)

\* Viewport.event: an event the children decline is tried as a scrolling
\* key, which none of KeyEvents is.
Viewport_event(s, c, ev) == Container_event(s, c, ev)

\* x.event(event), dispatched on the class of x
event(s, x, ev) ==
  IF Failed(s) THEN s
  ELSE IF x = None THEN Raise(s, "AttributeError")
  ELSE IF s.kind[x] = "Viewport" THEN Viewport_event(s, x, ev)
  ELSE IF IsContainer(s, x) THEN Container_event(s, x, ev)
  ELSE IF s.kind[x] = "Button" THEN Button_event(s, x, ev)
  ELSE Widget_event(s, x, ev)

\* WidgetRoot.focus without the second call of the hosted widget's focus()
WidgetRoot_focus_Once(s, rev) ==
  IF Failed(s) THEN s
  ELSE IF s.widget = None THEN Return(s, FALSE)
  ELSE focus(s, s.widget, rev)

WidgetRoot_focus(s, rev) ==
  IF Failed(s) THEN s
  ELSE IF s.widget = None THEN Return(s, FALSE)
  ELSE Then(focus(s, s.widget, rev),
            LAMBDA t : IF t.ret THEN t ELSE focus(t, t.widget, rev))

\* The head of the loop of WidgetRoot.main, which runs before an input is
\* processed: the layout is made and the display redrawn when not valid.
WidgetRoot_main(s) ==
  Then(IF Failed(s) \/ s.rvl THEN s ELSE WidgetRoot_make(s),
       LAMBDA t : IF t.rvd THEN t ELSE WidgetRoot_redraw(t))

WidgetRoot_event(s, ev) ==
  Then(IF ev \in {"Tab", "BTab"} THEN WidgetRoot_focus(s, ev = "BTab")
       ELSE Return(s, FALSE),
       LAMBDA t : IF t.ret THEN t
                  ELSE IF t.widget # None THEN event(t, t.widget, ev)
                  ELSE Return(t, FALSE))

----------------------------------------------------------------------------
(* Steps: one call of a method from outside, the heap before it kept in    *)
(* pre and the call in last.                                               *)

Call(op, a, b, flag, t) ==
  [op |-> op, a |-> a, b |-> b, flag |-> flag, ret |-> t.ret, err |-> t.err,
   log |-> t.log, drawn |-> t.drawn]

NoCall == [op |-> "init", a |-> None, b |-> None, flag |-> FALSE,
           ret |-> FALSE, err |-> NoErr, log |-> <<>>, drawn |-> <<>>]

HeapIs(s) ==
  /\ kind = s.kind /\ parent = s.parent /\ children = s.children
  /\ rwidget = s.widget /\ vd = s.vd /\ vs = s.vs /\ vl = s.vl
  /\ rvd = s.rvd /\ rvl = s.rvl /\ foc = s.foc /\ bfoc = s.bfoc
  /\ msz = s.msz /\ psz = s.psz /\ oldrect = s.oldrect /\ placed = s.placed
  /\ grabbing = s.grabbing /\ lines = s.lines /\ pad = s.pad
  /\ chms = s.chms /\ chps = s.chps /\ pres = s.pres /\ boxes = s.boxes
  /\ slots = s.slots /\ revslots = s.revslots /\ layers = s.layers
  /\ cfg = s.cfg /\ visibility = s.visibility /\ stale = s.stale
  /\ pre = [s EXCEPT !.err = NoErr, !.ret = FALSE, !.scrolls = FALSE,
                     !.moved = FALSE, !.log = <<>>, !.drawn = <<>>]
  /\ last = NoCall
  /\ hist = <<>>

\* The heap s at the start, no layout helper called.
Start(s) == HeapIs(s) /\ args = NoArgs /\ out = NoOut

\* The variables of the heap and of its history.
heap == <<kind, parent, children, rwidget, vd, vs, vl, rvd, rvl, foc, bfoc,
          msz, psz, oldrect, placed, grabbing, lines, pad, chms, chps, pres,
          boxes, slots, revslots, layers, cfg, visibility, stale, pre, last,
          hist>>

\* The heap t the call returned becomes the state.
Commit(t) ==
  /\ kind' = t.kind /\ parent' = t.parent /\ children' = t.children
  /\ rwidget' = t.widget /\ vd' = t.vd /\ vs' = t.vs /\ vl' = t.vl
  /\ rvd' = t.rvd /\ rvl' = t.rvl /\ foc' = t.foc /\ bfoc' = t.bfoc
  /\ msz' = t.msz /\ psz' = t.psz /\ oldrect' = t.oldrect /\ placed' = t.placed
  /\ grabbing' = t.grabbing /\ lines' = t.lines /\ pad' = t.pad
  /\ chms' = t.chms /\ chps' = t.chps /\ pres' = t.pres /\ boxes' = t.boxes
  /\ slots' = t.slots /\ revslots' = t.revslots /\ layers' = t.layers
  /\ cfg' = t.cfg /\ visibility' = t.visibility /\ stale' = t.stale
  /\ pre' = Cur
  /\ UNCHANGED <<args, out>>

\* One call from outside: op(a, b, flag) returned the heap t.
Step(t, op, a, b, flag) ==
  /\ Commit(t)
  /\ last' = Call(op, a, b, flag, t)
  /\ UNCHANGED hist

\* The same, the call appended to the history.
HStep(t, op, a, b, flag) ==
  /\ Commit(t)
  /\ last' = Call(op, a, b, flag, t)
  /\ hist' = Append(hist, Call(op, a, b, flag, t))

Ws == DOMAIN kind
Containers == {w \in Ws : kind[w] \in ContainerKinds}

\* The widgets of the subtree of w, w included, by the children lists.
RECURSIVE SubtreeF(_, _, _)
SubtreeF(s, w, fuel) ==
  IF fuel = 0 THEN {w}
  ELSE {w} \cup UNION {SubtreeF(s, s.children[w][i], fuel - 1) :
                         i \in 1..Len(s.children[w])}

Subtree(s, w) == SubtreeF(s, w, Cardinality(Widgets(s)))

\* The configurations add() is called with: a slot for a MarginContainer, a
\* layer for a StackContainer or PlacerContainer, a cell for a GridContainer
\* (the cells are numbered like the slots), nothing otherwise.
Configs(c) ==
  IF kind[c] = "MarginContainer" THEN {POS_CENTER, POS_TOP}
  ELSE IF kind[c] \in {"StackContainer", "PlacerContainer"} THEN {0, 1}
  ELSE IF kind[c] = "GridContainer" THEN {POS_CENTER, POS_TOP}
  ELSE {None}

----------------------------------------------------------------------------
(* The tree operations, on widgets that start outside any tree.            *)

TreeKinds == {<<"Container", "SingleContainer", "Button">>}

TreeInit == \E k \in TreeKinds : Start(Fresh(k))

\* c.add(w): a widget is never added to itself or below itself.
TreeAdd ==
  \E c \in Containers, w \in Ws : \E config \in Configs(c) :
    /\ c \notin Subtree(Cur, w)
    /\ Step(add(Cur, c, w, config), "add", c, w, FALSE)

TreeRemove ==
  \E c \in Containers, w \in Ws :
    Step(remove(Cur, c, w), "remove", c, w, FALSE)

TreeClear ==
  \E c \in Containers : Step(Container_clear(Cur, c), "clear", c, None, FALSE)

TreeDelete ==
  \E w \in Ws : Step(Widget_delete(Cur, w), "delete", w, None, FALSE)

RootAdd ==
  \E w \in Ws : Step(add(Cur, ROOT, w, None), "add", ROOT, w, FALSE)

RootRemove ==
  \E w \in Ws : Step(remove(Cur, ROOT, w), "remove", ROOT, w, FALSE)

RootMake ==
  \E m \in BOOLEAN :
    Step(WidgetRoot_make([Cur EXCEPT !.moved = m]), "make", ROOT, None, FALSE)

TreeNext ==
  \/ TreeAdd \/ TreeRemove \/ TreeClear \/ TreeDelete
  \/ RootAdd \/ RootRemove \/ RootMake

SpecTree == TreeInit /\ [][TreeNext]_vars

\* How often w occurs in the child collections: the children lists and
\* the root's widget.
Occurrences(w) ==
  Cardinality({<<c, i>> \in Ws \X (1..Cardinality(Ws)) :
                 i <= Len(children[c]) /\ children[c][i] = w})
  + (IF rwidget = w THEN 1 ELSE 0)

\* C1: every widget is in at most one child collection, at most once, and
\* its parent is P exactly when it is in P's child collection (P.children,
\* or the root's widget).
C1_OneOwner ==
  \A w \in Ws :
    /\ Occurrences(w) <= 1
    /\ \A c \in Containers : (parent[w] = c) <=> InSeq(w, children[c])
    /\ (parent[w] = ROOT) <=> (rwidget = w)
    /\ parent[w] \in Containers \cup {ROOT, None}

----------------------------------------------------------------------------
(* Invalidation and drawing, on a laid-out tree: the root hosts widget 1,   *)
(* which holds a container 2 and a leaf 5; 2 holds the leaves 3 and 4.  A   *)
(* Viewport, which holds one child, gets only the first of its two.         *)

\* The classes of the containers 1 and 2.
PathKinds == {"Container", "LinearContainer", "MarginContainer",
              "StackContainer", "Viewport"}

\* The configuration the n-th child of c is added with; the first child of
\* a MarginContainer is put in the slot first, the second in the other one
\* of POS_CENTER and POS_TOP.
SceneConfig(s, c, n, first) ==
  IF s.kind[c] = "MarginContainer"
  THEN IF n = 1 THEN first ELSE POS_CENTER + POS_TOP - first
  ELSE IF s.kind[c] = "StackContainer" THEN 0
  ELSE None

\* c.add(w) as the n-th child of c, unless c is a Viewport that has its child
SceneAdd(s, c, w, n, first) ==
  IF n > 1 /\ s.kind[c] \in SingleKinds THEN s
  ELSE add(s, c, w, SceneConfig(s, c, n, first))

\* The tree, built.
SceneTree(k1, k2, first) ==
  SceneAdd(SceneAdd(SceneAdd(SceneAdd(
    add(Fresh(<<k1, k2, "Button", "Widget", "Widget">>), ROOT, 1, None),
    1, 2, 1, first), 1, 5, 2, first), 2, 3, 1, first), 2, 4, 2, first)

\* The tree, built and made.
Scene(k1, k2, first) == WidgetRoot_make(SceneTree(k1, k2, first))

InvalInit ==
  \E k1 \in PathKinds, k2 \in PathKinds, first \in {POS_CENTER, POS_TOP} :
    Start(Scene(k1, k2, first))

\* x.invalidate(rec, child), called from outside: child is None or, as a
\* child of x calls it, a child of x.
Invalidate ==
  \E x \in Ws \cup {ROOT}, rec \in BOOLEAN, child \in Ws \cup {None} :
    /\ child # None => x # ROOT /\ parent[child] = x
    /\ Step(invalidate(Cur, x, rec, child), "invalidate", x, child, rec)

\* w.draw(win)
Draw == \E w \in Ws : Step(draw(Cur, w), "draw", w, None, FALSE)

RootRedraw == Step(WidgetRoot_redraw(Cur), "redraw", ROOT, None, FALSE)

InvalNext == Invalidate \/ Draw \/ RootRedraw

SpecInval == InvalInit /\ [][InvalNext]_vars

\* C2: a widget whose valid_self is false has valid_display false, in every
\* state that invalidate() calls of the three kinds and draw() calls reach.
C2_SelfImpliesDisplay == \A w \in Ws : ~ vs[w] => ~ vd[w]

\* A draw has left one widget with its own content still to be drawn, and
\* another one only with something below it to be drawn.
C2_Witness ==
  /\ last.op = "draw"
  /\ \E w \in Ws : ~ vs[w]
  /\ \E w \in Ws : vs[w] /\ ~ vd[w]

\* The widgets below the root in the heap s.
Rooted(s) == IF s.widget = None THEN {} ELSE Subtree(s, s.widget)

\* w and the widgets above it.
Path(s, w) == ({w} \cup AncestorsOf(s, w)) \ {ROOT}

\* The widgets x.invalidate(True) marks: x and, unless x is a Viewport, the
\* ones its children mark.
RECURSIVE RecMarkedF(_, _, _)
RecMarkedF(s, x, fuel) ==
  IF fuel = 0 \/ s.kind[x] = "Viewport" THEN {x}
  ELSE {x} \cup UNION {RecMarkedF(s, s.children[x][i], fuel - 1) :
                         i \in 1..Len(s.children[x])}

RecMarked(s, X) ==
  UNION {RecMarkedF(s, x, Cardinality(Widgets(s))) : x \in X}

\* The children of a after its child c.
LaterSiblings(s, a, c) ==
  {s.children[a][i] : i \in (IndexOf(c, s.children[a]) + 1)..Len(s.children[a])}

\* The widgets beside the path of w that the StackContainers on the path
\* mark: the layers above the one the path goes through.
StackMarked(s, w) ==
  UNION {RecMarked(s, LaterSiblings(s, s.parent[c], c)) :
           c \in {x \in Path(s, w) : /\ s.parent[x] \in Widgets(s)
                                     /\ s.kind[s.parent[x]] = "StackContainer"}}

\* The widgets other than the hosted one that the root marks by its call of
\* invalidate() on the hosted widget.
RootMarked(s) ==
  IF s.widget = None THEN {}
  ELSE IF s.kind[s.widget] = "StackContainer" THEN RecMarked(s, {s.widget})
  ELSE IF s.kind[s.widget] = "MarginContainer"
       THEN RecMarked(s, {c \in Widgets(s) :
                            /\ InSeq(c, s.children[s.widget])
                            /\ s.slots[s.widget][c] # POS_CENTER})
  ELSE {}

\* The last call was a non-recursive invalidate() of a leaf below the root,
\* in a tree whose widgets all had valid_display set.
LeafInvalidated ==
  /\ last.op = "invalidate" /\ ~ last.flag /\ last.b = None
  /\ last.a \in Rooted(pre)
  /\ kind[last.a] \in LeafKinds
  /\ \A w \in Rooted(pre) : pre.vd[w]

\* C3 as stated: the invalidate() of a leaf in an all-valid tree clears
\* valid_display on exactly the leaf and its ancestors.
C3_ExactlyPath ==
  LeafInvalidated =>
    \A w \in Rooted(pre) : vd[w] <=> w \notin Path(pre, last.a)

\* C3, amended: the invalidate() of a leaf in an all-valid tree clears
\* valid_display on the leaf, its ancestors, the layers above the path in
\* every StackContainer on it, and, when the root's valid_display was set,
\* what the root's invalidate() of the hosted widget marks (everything below
\* a hosted StackContainer, the children off the centre of a hosted
\* MarginContainer), each down to the first Viewport; all other widgets of
\* the tree keep valid_display.
C3_PathAndLayers ==
  LeafInvalidated =>
    \A w \in Rooted(pre) :
      vd[w] <=> w \notin (Path(pre, last.a) \cup StackMarked(pre, last.a)
                          \cup (IF pre.rvd THEN RootMarked(pre) ELSE {}))

\* A leaf was invalidated in an all-valid tree; a widget beside its path
\* lost valid_display and another one kept it.
C3_Witness ==
  /\ LeafInvalidated
  /\ \E w \in Rooted(pre) \ Path(pre, last.a) : ~ vd[w]
  /\ \E w \in Rooted(pre) \ Path(pre, last.a) : vd[w]

\* The flags of the widget (or the root) a are as before the last call.
SameFlags(a) ==
  IF a = ROOT THEN rvd = pre.rvd /\ rvl = pre.rvl
  ELSE vd[a] = pre.vd[a] /\ vs[a] = pre.vs[a] /\ vl[a] = pre.vl[a]

\* C4: a non-recursive invalidate() of a widget whose valid_display was
\* false changes no flag of any ancestor, the root included; the one of a
\* widget whose valid_display was set changes no flag above the first
\* ancestor whose valid_display was false.
C4_NoRebubble ==
  (last.op = "invalidate" /\ ~ last.flag /\ last.a \in Ws) =>
    \A a \in AncestorsOf(pre, last.a) :
      (\E b \in Path(pre, last.a) : a \in AncestorsOf(pre, b) /\ ~ pre.vd[b])
        => SameFlags(a)

\* A widget whose valid_display was false was invalidated while that of its
\* parent was set.
C4_Witness ==
  /\ last.op = "invalidate" /\ ~ last.flag /\ last.a \in Ws
  /\ ~ pre.vd[last.a]
  /\ pre.parent[last.a] \in Ws
  /\ pre.vd[pre.parent[last.a]]

\* Whether x, invalidated non-recursively with the given child, tells its
\* parent: valid_display was set, and x is not a StackContainer called by
\* none of its children (which makes the call recursive).
Bubbles(s, x, child) ==
  /\ s.vd[x]
  /\ ~ (s.kind[x] = "StackContainer" /\ ~ InSeq(child, s.children[x]))

\* The widgets that get the request with a child, when x gets it with the
\* given one.
RECURSIVE ReceiversF(_, _, _, _)
ReceiversF(s, x, child, fuel) ==
  IF fuel = 0 \/ x \notin Widgets(s) THEN {}
  ELSE (IF child # None THEN {x} ELSE {})
       \cup (IF Bubbles(s, x, child)
             THEN ReceiversF(s, s.parent[x], x, fuel - 1) ELSE {})

Receivers(s, x, child) == ReceiversF(s, x, child, Cardinality(Widgets(s)) + 1)

\* Whether the request reaches the root with the root's valid_display set.
RECURSIVE ReachesRootF(_, _, _, _)
ReachesRootF(s, x, child, fuel) ==
  IF x = ROOT THEN s.rvd
  ELSE IF fuel = 0 \/ x \notin Widgets(s) THEN FALSE
  ELSE Bubbles(s, x, child) /\ ReachesRootF(s, s.parent[x], x, fuel - 1)

ReachesRoot(s, x, child) ==
  ReachesRootF(s, x, child, Cardinality(Widgets(s)) + 1)

----------------------------------------------------------------------------
(* Layout: the tree above, built and not yet made; it is made, its layout   *)
(* is invalidated and its sizes are read.                                   *)

\* The classes of the containers 1 and 2.
LayoutKinds == {"Container", "LinearContainer"}

LayoutInit ==
  \E k1 \in LayoutKinds, k2 \in LayoutKinds :
    Start(SceneTree(k1, k2, POS_CENTER))

\* root.make(), the window resized since the last one or not
LayoutMake ==
  \E m \in BOOLEAN :
    Step(WidgetRoot_make([Cur EXCEPT !.moved = m]), "make", ROOT, None, m)

\* x.invalidate_layout()
InvalidateLayout ==
  \E x \in Ws \cup {ROOT} :
    Step(invalidate_layout(Cur, x), "invalidate_layout", x, None, FALSE)

\* w.prefsize or w.minsize, read from outside
ReadSize ==
  \E w \in Ws, pref \in BOOLEAN :
    Step(IF pref THEN prefsize(Cur, w) ELSE minsize(Cur, w),
         "size", w, None, pref)

LayoutNext == LayoutMake \/ InvalidateLayout \/ ReadSize

SpecLayout == LayoutInit /\ [][LayoutNext]_vars

\* The layout flag and the size caches of w are cleared.
LayoutCleared(w) == ~ vl[w] /\ ~ msz[w] /\ ~ psz[w]

\* The container's own part of C6: its flag and caches are cleared, and its
\* parent is called exactly when its valid_layout was set.
C6_OwnPart ==
  (last.op = "invalidate_layout" /\ last.a \in Containers /\ last.err = NoErr) =>
    /\ LayoutCleared(last.a)
    /\ ~ pre.vl[last.a] => \A a \in AncestorsOf(pre, last.a) : SameFlags(a)
    /\ (pre.vl[last.a] /\ pre.parent[last.a] = ROOT) => ~ rvl
    /\ (pre.vl[last.a] /\ pre.parent[last.a] \in Ws) => ~ vl[pre.parent[last.a]]

\* C6: invalidate_layout() on a container clears its valid_layout and its
\* size caches, calls the parent's exactly when its valid_layout was set,
\* and leaves every direct child with valid_layout and size caches cleared.
C6_ClearsAndPropagates ==
  /\ C6_OwnPart
  /\ (last.op = "invalidate_layout" /\ last.a \in Containers
      /\ last.err = NoErr) =>
       \A i \in 1..Len(children[last.a]) : LayoutCleared(children[last.a][i])

----------------------------------------------------------------------------
(* Focus: a container of three buttons under the root, made; its focus()    *)
(* is called, and the calls are kept in hist.                               *)

\* The number of calls that are kept.
MaxCalls == 6

\* adds[i] = <<c, w>>: c.add(w), in this order
RECURSIVE AddAll(_, _)
AddAll(s, adds) ==
  IF adds = <<>> THEN s
  ELSE AddAll(add(s, Head(adds)[1], Head(adds)[2], None), Tail(adds))

\* The tree of the given classes and add() calls, made and drawn.
Built(kinds, adds) ==
  WidgetRoot_redraw(WidgetRoot_make(AddAll(Fresh(kinds), adds)))

RoundTripInit ==
  Start(Built(<<"Container", "Button", "Button", "Button">>,
              <<<<ROOT, 1>>, <<1, 2>>, <<1, 3>>, <<1, 4>>>>))

\* The hosted container's focus(rev)
HostedFocus ==
  \E rev \in BOOLEAN :
    /\ Len(hist) < MaxCalls
    /\ rwidget # None
    /\ HStep(focus(Cur, rwidget, rev), "focus", rwidget, None, rev)

RoundTripNext == HostedFocus

SpecRoundTrip == RoundTripInit /\ [][RoundTripNext]_vars

\* The buttons in the focused state.
FocusedLeaves == {w \in Ws : bfoc[w]}

\* The directions of the calls of C7: forward four times, then backward.
RoundTrip == <<FALSE, FALSE, FALSE, FALSE, TRUE>>

----------------------------------------------------------------------------
(* Focus from the root, on trees of nested containers; each call comes     *)
(* from the main loop, after its refresh.                                  *)

\* The trees: three buttons; buttons at two depths and a widget that takes
\* no focus; buttons at three depths; one button; no button; no tree.
FocusScenes ==
  { [kinds |-> <<"Container", "Button", "Button", "Button">>,
     adds |-> <<<<ROOT, 1>>, <<1, 2>>, <<1, 3>>, <<1, 4>>>>],
    [kinds |-> <<"Container", "Button", "Container", "Button", "Button",
                 "Widget">>,
     adds |-> <<<<ROOT, 1>>, <<1, 2>>, <<1, 3>>, <<3, 4>>, <<3, 5>>,
                <<1, 6>>>>],
    [kinds |-> <<"Container", "Container", "Button", "Container", "Button",
                 "Button">>,
     adds |-> <<<<ROOT, 1>>, <<1, 2>>, <<2, 3>>, <<2, 4>>, <<4, 5>>,
                <<1, 6>>>>],
    [kinds |-> <<"Container", "Container", "Button">>,
     adds |-> <<<<ROOT, 1>>, <<1, 2>>, <<2, 3>>>>],
    [kinds |-> <<"Container", "Widget", "Container">>,
     adds |-> <<<<ROOT, 1>>, <<1, 2>>, <<1, 3>>>>],
    [kinds |-> <<"Container", "Button">>, adds |-> <<<<1, 2>>>>] }

FocusInit == \E sc \in FocusScenes : Start(Built(sc.kinds, sc.adds))

\* root.focus(rev)
RootFocus ==
  \E rev \in BOOLEAN :
    Step(WidgetRoot_focus(WidgetRoot_main(Cur), rev), "rootfocus", ROOT, None, rev)

\* root.event((key,))
RootEvent ==
  \E ev \in KeyEvents :
    Step(WidgetRoot_event(WidgetRoot_main(Cur), ev), ev, ROOT, None, FALSE)

\* The hosted widget's focus(rev)
InnerFocus ==
  \E rev \in BOOLEAN :
    /\ rwidget # None
    /\ Step(focus(WidgetRoot_main(Cur), rwidget, rev), "focus", rwidget, None, rev)

FocusNext == RootFocus \/ RootEvent \/ InnerFocus

SpecFocus == FocusInit /\ [][FocusNext]_vars

\* The focusable leaves below w, depth first in insertion order.
RECURSIVE Leaves(_, _)
RECURSIVE LeavesEach(_, _)
Leaves(s, w) ==
  IF w = None THEN <<>>
  ELSE IF IsContainer(s, w) THEN LeavesEach(s, s.children[w])
  ELSE IF s.kind[w] = "Button" THEN <<w>>
  ELSE <<>>

LeavesEach(s, ws) ==
  IF ws = <<>> THEN <<>> ELSE Leaves(s, Head(ws)) \o LeavesEach(s, Tail(ws))

\* The buttons in the focused state before the last call.
PreFocused == {w \in Widgets(pre) : pre.bfoc[w]}

\* The leaf of L the focus moves to from the focused ones F.
NextLeaf(L, F, rev) ==
  IF F = {} THEN (IF rev THEN L[Len(L)] ELSE L[1])
  ELSE LET i == IndexOf(CHOOSE w \in F : TRUE, L)
       IN IF rev THEN L[((i - 2) % Len(L)) + 1] ELSE L[(i % Len(L)) + 1]

\* C10: in a tree of nested containers with a focusable leaf, the root's
\* focus(False) returns True and moves the focus to the next focusable leaf
\* in depth-first insertion order, the first after the last, and focus(True)
\* to the one before, the last before the first; with no focusable leaf, or
\* no hosted widget, focus() and a Tab return False, raise nothing and
\* leave every focus record None.
C10_RootCycle ==
  LET L == Leaves(pre, pre.widget)
  IN /\ (last.op = "rootfocus" /\ L # <<>>) =>
          /\ last.err = NoErr
          /\ last.ret
          /\ Cardinality(PreFocused) <= 1
          /\ FocusedLeaves = {NextLeaf(L, PreFocused, last.flag)}
     /\ (last.op \in {"rootfocus", "Tab"} /\ L = <<>>) =>
          /\ last.err = NoErr
          /\ ~ last.ret
          /\ \A c \in Containers : foc[c] = None
          /\ FocusedLeaves = {}

\* The focus wraps from the last leaf to the first, in a tree with leaves at
\* more than one depth.
C10_Witness ==
  LET L == Leaves(pre, pre.widget)
  IN /\ last.op = "rootfocus" /\ ~ last.flag
     /\ Len(L) >= 3
     /\ \E i \in 1..Len(L) : parent[L[i]] # rwidget
     /\ PreFocused = {L[Len(L)]}
     /\ FocusedLeaves = {L[1]}
     /\ last.ret

----------------------------------------------------------------------------
(* Focus while the tree changes: the program adds and removes widgets, the *)
(* main loop delivers focus requests and keys.                             *)

\* The trees at the start: a button in a nested container, and two buttons
\* in one container.
FocusTreeScenes ==
  { [kinds |-> <<"Container", "Container", "Button">>,
     adds |-> <<<<ROOT, 1>>, <<1, 2>>, <<2, 3>>>>],
    [kinds |-> <<"Container", "Button", "Button">>,
     adds |-> <<<<ROOT, 1>>, <<1, 2>>, <<1, 3>>>>] }

FocusTreeInit == \E sc \in FocusTreeScenes : Start(Built(sc.kinds, sc.adds))

FocusTreeNext == TreeAdd \/ TreeRemove \/ RootFocus \/ RootEvent

SpecFocusTree == FocusTreeInit /\ [][FocusTreeNext]_vars

\* The widgets of the tree the root hosts.
InTree == IF rwidget = None THEN {} ELSE Subtree(Cur, rwidget)

\* w is where the focus record above it points.
OnFocusPath(w) ==
  \/ w = rwidget
  \/ parent[w] \in Containers /\ foc[parent[w]] = w

\* C8: at most one leaf of the tree is in the focused state, and every
\* container of the tree with a focus record, and every focused leaf of the
\* tree, is the focus record of its parent or the widget the root hosts.
C8_SinglePath ==
  /\ Cardinality(FocusedLeaves \cap InTree) <= 1
  /\ \A w \in InTree :
       (IF w \in Containers THEN foc[w] # None ELSE bfoc[w]) => OnFocusPath(w)

\* C9: a remove(w) from the container whose focus record is w leaves w
\* without a parent, the record not at w, and no button of w's subtree in
\* the focused state.
C9_RemoveClearsFocus ==
  (/\ last.op = "remove" /\ last.err = NoErr
   /\ pre.foc[last.a] = last.b) =>
     /\ parent[last.b] = None
     /\ foc[last.a] # last.b
     /\ \A x \in Subtree(Cur, last.b) : ~ bfoc[x]

----------------------------------------------------------------------------
(* Events: besides the root's focus() and event(), the event() of any      *)
(* container of the tree is called, with a key or a FocusEvent.            *)

\* c.event((ev,)) of a container of the tree
ContainerEvent ==
  \E c \in Containers, ev \in Events :
    /\ c \in Rooted(Cur)
    /\ Step(event(Cur, c, ev), ev, c, None, FALSE)

EventNext == RootFocus \/ RootEvent \/ ContainerEvent

SpecEvent == FocusInit /\ [][EventNext]_vars

\* The last call handed its event on as the call of c's focus(rev) does
\* from the same heap, and returned what that call returns.
SameAs(t, c) ==
  /\ last.ret = t.ret /\ last.err = t.err
  /\ foc = t.foc /\ bfoc = t.bfoc
  /\ last.log = <<<<c, last.op>>>> \o t.log

AsFocus(c, rev) == SameAs(focus(pre, c, rev), c)

\* The last call handed its event to the focused child of c, to no other
\* child, and returned the child's result; with no focused child it
\* declined the event and nobody but c saw it.
ToFocusedChild(c) ==
  /\ last.err = NoErr
  /\ IF pre.foc[c] = None
     THEN ~ last.ret /\ last.log = <<<<c, last.op>>>>
     ELSE /\ last.ret = event(pre, pre.foc[c], last.op).ret
          /\ \E i \in 1..Len(last.log) : last.log[i][1] = pre.foc[c]
          /\ \A i \in 1..Len(last.log) :
               last.log[i][1] \in {c} \cup Subtree(pre, pre.foc[c])

\* The calls of C11: the event() of a Container.
ContainerCall(evs) ==
  /\ last.op \in evs
  /\ last.a \in Containers
  /\ kind[last.a] = "Container"

\* The statement of C11 as made: every event but Tab / Shift-Tab, the
\* FocusEvents included, goes to the focused child or is declined.
C11_Routing ==
  /\ ContainerCall({"Tab", "BTab"}) => AsFocus(last.a, last.op = "BTab")
  /\ ContainerCall(Events \ {"Tab", "BTab"}) => ToFocusedChild(last.a)

\* C11: a Container handles Tab / Shift-Tab by calling focus(False) /
\* focus(True) and returning its result; it delivers every other key to the
\* focused child only and returns the child's result, and declines it when
\* no child is focused; a FocusEvent it consumes itself (returns True), a
\* focus-lost one clearing its focus record.
C11_KeyRouting ==
  /\ ContainerCall({"Tab", "BTab"}) => AsFocus(last.a, last.op = "BTab")
  /\ ContainerCall(KeyEvents \ {"Tab", "BTab"}) => ToFocusedChild(last.a)
  /\ ContainerCall({"FocusIn", "FocusOut"}) =>
       /\ last.ret /\ last.err = NoErr
       /\ last.op = "FocusOut" => foc[last.a] = None
       /\ last.op = "FocusIn" => foc[last.a] = pre.foc[last.a]

\* A Return key reached the focused child, the second of several, which
\* consumed it.
C11_Witness ==
  /\ ContainerCall({"Return"})
  /\ Len(children[last.a]) >= 2
  /\ pre.foc[last.a] = children[last.a][2]
  /\ last.ret
  /\ last.log = <<<<last.a, "Return">>, <<pre.foc[last.a], "Return">>>>

----------------------------------------------------------------------------
(* The layout helpers: functions of integers and lists.  A call is the     *)
(* state: args holds the arguments, out the result once the call is made.  *)

\* sum(q)
RECURSIVE Sum(_)
Sum(q) == IF q = <<>> THEN 0 ELSE Head(q) + Sum(Tail(q))

\* [v] * n
Repeat(v, n) == [i \in 1..n |-> v]

\* A returned list, and a raised exception.
Ok(r) == [err |-> NoErr, r |-> r]
Exc(e) == [err |-> e, r |-> <<>>]

\* The loop of linear_distrib, i items appended
RECURSIVE linear_distrib_loop(_, _, _, _, _, _)
linear_distrib_loop(base, rem, amnt, crem, ret, i) ==
  IF i = amnt THEN [crem |-> crem, ret |-> ret]
  ELSE linear_distrib_loop(base, rem, amnt, (crem + rem) % amnt,
                           Append(ret, base + ((crem + rem) \div amnt)), i + 1)

\* The asserts that end linear_distrib
linear_distrib_end(full, rem, l) ==
  IF Sum(l.ret) # full \/ l.crem # rem THEN Exc("AssertionError")
  ELSE Ok(l.ret)

\* A split that gives everything to the first item
linear_distrib_First(full, amnt) ==
  Ok([i \in 1..amnt |-> IF i = 1 THEN full ELSE 0])

linear_distrib(full, amnt) ==
  IF full = 0 THEN Ok(Repeat(0, amnt))
  ELSE IF amnt = 0 THEN Ok(<<>>)
  ELSE IF full % amnt = 0 THEN Ok(Repeat(full \div amnt, amnt))
  ELSE linear_distrib_end(
         full, full % amnt,
         linear_distrib_loop(full \div amnt, full % amnt, amnt, full % amnt,
                             <<>>, 0))

\* The arguments are drawn up to these.
MaxFull == 12
MaxItems == 4

\* linear_distrib(full, amnt) is called.
LinearDistribInit ==
  /\ HeapIs(Fresh(<<>>))
  /\ args \in [fn : {"linear_distrib"}, full : 0..MaxFull, amnt : 0..MaxItems]
  /\ out = NoOut

Call_linear_distrib ==
  /\ args.fn = "linear_distrib"
  /\ out = NoOut
  /\ out' = linear_distrib(args.full, args.amnt)
  /\ UNCHANGED <<heap, args>>

LinearDistribNext == Call_linear_distrib

SpecLinearDistrib == LinearDistribInit /\ [][LinearDistribNext]_vars

\* The greatest and the least element of a non-empty list
MaxOf(q) == CHOOSE x \in {q[i] : i \in 1..Len(q)} : \A i \in 1..Len(q) : q[i] <= x
MinOf(q) == CHOOSE x \in {q[i] : i \in 1..Len(q)} : \A i \in 1..Len(q) : q[i] >= x

\* The list r is an even split of full into n.
EvenSplit(r, full, n) ==
  /\ Len(r) = n
  /\ \A i \in 1..n : r[i] >= 0
  /\ Sum(r) = full
  /\ n > 0 => MaxOf(r) - MinOf(r) <= 1

Returned(fn) == args.fn = fn /\ out # NoOut

\* The statement of C14 as made, for every n >= 0.
C14_EvenSplitAll ==
  Returned("linear_distrib") =>
    out.err = NoErr /\ EvenSplit(out.r, args.full, args.amnt)

\* C14: for full >= 0 and n >= 1, linear_distrib(full, n) returns n
\* non-negative integers that sum to full and differ by at most 1; for
\* n = 0 it returns the empty list, whatever full is.
C14_EvenSplit ==
  Returned("linear_distrib") =>
    /\ out.err = NoErr
    /\ args.amnt >= 1 => EvenSplit(out.r, args.full, args.amnt)
    /\ args.amnt = 0 => out.r = <<>>

\* A split with a remainder: some items get one more than others.
C14_Witness ==
  /\ Returned("linear_distrib")
  /\ args.amnt >= 3 /\ args.full > args.amnt
  /\ MaxOf(out.r) = MinOf(out.r) + 1
  /\ Sum(out.r) = args.full

----------------------------------------------------------------------------
(* weight_distrib computes in floats.  The quotients full * w / sw all have *)
(* the denominator sw, so a float is kept as its numerator over sw, with a *)
(* mark ix when a rounding has gone into it.  A rounded value differs from *)
(* the exact one by less than any 1 / sw, to either side, which shows      *)
(* where the exact value is a whole number: the float is then the number,  *)
(* or just below it, or just above.  The operators return the set of the   *)
(* results the roundings can give.                                         *)

\* The weights of the items
Weights == 0..3

\* float(p) / float(q) is not rounded: the quotient has a power of two as
\* its denominator.
Exact(p, q) == \E k \in 0..q : (p * 2^k) % q = 0

\* inc, rem = divmod(rem + lrem, 1.0), for rem = rn / sw and lrem = ln / sw
AddRem(rn, ix, ln, lx, sw) ==
  IF ln = 0 THEN {[inc |-> 0, rn |-> rn, ix |-> ix]}
  ELSE IF (rn + ln) % sw # 0
       THEN {[inc |-> (rn + ln) \div sw, rn |-> (rn + ln) % sw, ix |-> ix \/ lx]}
  ELSE {[inc |-> 1, rn |-> 0, ix |-> ix \/ lx]}
       \cup (IF ix \/ lx THEN {[inc |-> 0, rn |-> sw, ix |-> TRUE]} ELSE {})

\* assert sum(r) == full
weight_distrib_assert(full, r) ==
  IF Sum(r) = full THEN Ok(r) ELSE Exc("AssertionError")

\* The end of weight_distrib without the correction of the last item
weight_distrib_end_NoFix(full, r, rn, ix) == {weight_distrib_assert(full, r)}

\* The correction of the last item, and the assert
weight_distrib_end(full, r, rn, ix) ==
  { weight_distrib_assert(
      full, IF pos /\ Sum(r) + 1 = full THEN [r EXCEPT ![Len(r)] = @ + 1] ELSE r) :
    pos \in (IF rn > 0 THEN {TRUE} ELSE IF ix THEN {TRUE, FALSE} ELSE {FALSE}) }

\* The loop of weight_distrib, at item i
RECURSIVE weight_distrib_loop(_, _, _, _, _, _, _)
weight_distrib_loop(full, weights, sw, i, rn, ix, r) ==
  IF i > Len(weights) THEN weight_distrib_end(full, r, rn, ix)
  ELSE UNION { weight_distrib_loop(
                 full, weights, sw, i + 1, o.rn, o.ix,
                 Append(r, ((full * weights[i]) \div sw) + o.inc)) :
               o \in AddRem(rn, ix, (full * weights[i]) % sw,
                            ~ Exact(full * weights[i], sw), sw) }

weight_distrib(full, weights) ==
  IF full = 0 THEN {Ok(Repeat(0, Len(weights)))}
  ELSE IF weights = <<>> THEN {Ok(<<>>)}
  ELSE IF Sum(weights) = 0 THEN {Exc("ZeroDivisionError")}
  ELSE weight_distrib_loop(full, weights, Sum(weights), 1, 0, FALSE, <<>>)

\* The lists of up to n elements of S
ListsUpTo(S, n) == UNION {[1..k -> S] : k \in 0..n}

\* weight_distrib(full, weights) is called; full is negative when
\* LinearContainer._shrink calls.
WeightDistribInit ==
  /\ HeapIs(Fresh(<<>>))
  /\ args \in [fn : {"weight_distrib"}, full : (0 - MaxFull)..MaxFull,
               weights : ListsUpTo(Weights, MaxItems)]
  /\ out = NoOut

Call_weight_distrib ==
  /\ args.fn = "weight_distrib"
  /\ out = NoOut
  /\ out' \in weight_distrib(args.full, args.weights)
  /\ UNCHANGED <<heap, args>>

WeightDistribNext == Call_weight_distrib

SpecWeightDistrib == WeightDistribInit /\ [][WeightDistribNext]_vars

\* C15: for full >= 0 and a non-empty list of non-negative weights with a
\* positive sum, weight_distrib(full, weights) returns a list of the same
\* length whose elements sum to full.
C15_WeightedSum ==
  (/\ Returned("weight_distrib")
   /\ args.full >= 0 /\ args.weights # <<>> /\ Sum(args.weights) > 0) =>
     /\ out.err = NoErr
     /\ Len(out.r) = Len(args.weights)
     /\ Sum(out.r) = args.full

\* A split in thirds, where the remainders 1/3 are rounded and carried.
C15_Witness ==
  /\ Returned("weight_distrib")
  /\ args.full = 4 /\ args.weights = <<1, 1, 1>>
  /\ out.err = NoErr
  /\ Sum(out.r) = 4

----------------------------------------------------------------------------
(* LinearContainer.distribute                                              *)

Max(a, b) == IF a >= b THEN a ELSE b

\* The groups so far, item k next
RECURSIVE LinearContainer__make_groups_loop(_, _, _, _, _, _, _)
LinearContainer__make_groups_loop(g, k, initial, mins, advances, weights, sweights) ==
  IF k > Len(initial) THEN g
  ELSE LinearContainer__make_groups_loop(
         IF advances[k] # 0 \/ k = 1
         THEN [glengths |-> Append(g.glengths, 1),
               gmins |-> Append(g.gmins, Max(0, mins[k])),
               gsizes |-> Append(g.gsizes, Max(0, initial[k])),
               gweights |-> Append(g.gweights, weights[k]),
               gsweights |-> Append(g.gsweights, sweights[k])]
         ELSE [glengths |-> [g.glengths EXCEPT ![Len(g.glengths)] = @ + 1],
               gmins |-> [g.gmins EXCEPT ![Len(g.gmins)] = Max(@, mins[k])],
               gsizes |-> [g.gsizes EXCEPT ![Len(g.gsizes)] = Max(@, initial[k])],
               gweights |-> [g.gweights EXCEPT ![Len(g.gweights)] = weights[k]],
               gsweights |-> [g.gsweights EXCEPT ![Len(g.gsweights)] = sweights[k]]],
         k + 1, initial, mins, advances, weights, sweights)

LinearContainer__make_groups(initial, mins, advances, weights, sweights) ==
  LinearContainer__make_groups_loop(
    [glengths |-> <<>>, gmins |-> <<>>, gsizes |-> <<>>, gweights |-> <<>>,
     gsweights |-> <<>>],
    1, initial, mins, advances, weights, sweights)

\* zip() stops at the shorter list.
RECURSIVE LinearContainer__unpack_groups(_, _)
LinearContainer__unpack_groups(values, lengths) ==
  IF values = <<>> \/ lengths = <<>> THEN <<>>
  ELSE Repeat(Head(values), Head(lengths))
       \o LinearContainer__unpack_groups(Tail(values), Tail(lengths))

\* The indices of a _shrink that does not pass over the groups at their
\* minimum
ShrinkIndices_All(r, gmins, gsweights) ==
  SelectSeq([i \in 1..Len(gsweights) |-> i], LAMBDA i : gsweights[i] # 0)

\* The indices _shrink collects: the groups that shrink and are above their
\* minimum.
ShrinkIndices(r, gmins, gsweights) ==
  SelectSeq([i \in 1..Len(gsweights) |-> i],
            LAMBDA i : gsweights[i] # 0 /\ gmins[i] - r[i] < 0)

\* The increments applied without the bound of the minimum
ShrinkApply_NoFloor(r, gmins, indices, wd) ==
  [i \in 1..Len(r) |->
     IF InSeq(i, indices) THEN r[i] + wd[IndexOf(i, indices)] ELSE r[i]]

\* r[idx] += max(diff, inc), for the increments wd
ShrinkApply(r, gmins, indices, wd) ==
  [i \in 1..Len(r) |->
     IF InSeq(i, indices)
     THEN r[i] + Max(gmins[i] - r[i], wd[IndexOf(i, indices)])
     ELSE r[i]]

RECURSIVE LinearContainer__shrink(_, _, _, _)

\* if sum(r) == full: break
ShrinkAgain(r, full, gmins, gsweights) ==
  IF Sum(r) = full THEN {Ok(r)}
  ELSE LinearContainer__shrink(r, full, gmins, gsweights)

\* One round of the loop of _shrink, with the indices collected
ShrinkRound(r, full, gmins, gsweights, indices) ==
  IF indices = <<>> THEN {Ok(r)}
  ELSE UNION { IF wd.err # NoErr THEN {wd}
               ELSE ShrinkAgain(ShrinkApply(r, gmins, indices, wd.r),
                                full, gmins, gsweights) :
               wd \in weight_distrib(
                        full - Sum(r),
                        [j \in 1..Len(indices) |-> gsweights[indices[j]]]) }

LinearContainer__shrink(r, full, gmins, gsweights) ==
  ShrinkRound(r, full, gmins, gsweights, ShrinkIndices(r, gmins, gsweights))

\* The results, unpacked
Unpacked(outs, glengths) ==
  { IF o.err # NoErr THEN o
    ELSE Ok(LinearContainer__unpack_groups(o.r, glengths)) : o \in outs }

\* The whole increment given to the first group
Grown_First(gsizes, outs) ==
  { IF o.err # NoErr THEN o
    ELSE Ok([i \in 1..Len(gsizes) |-> gsizes[i] + (IF i = 1 THEN Sum(o.r) ELSE 0)]) :
    o \in outs }

\* r = [l + i for l, i in zip(gsizes, incs)]
Grown(gsizes, outs) ==
  { IF o.err # NoErr THEN o ELSE Ok([i \in 1..Len(gsizes) |-> gsizes[i] + o.r[i]]) :
    o \in outs }

\* _distrib_normal, the groups made and the weights chosen
DistribNormalGroups(full, g, gweights) ==
  Unpacked(IF full - Sum(g.gsizes) > 0
           THEN Grown(g.gsizes, weight_distrib(full - Sum(g.gsizes), gweights))
           ELSE IF full - Sum(g.gsizes) < 0
                THEN LinearContainer__shrink(g.gsizes, full, g.gmins, g.gsweights)
           ELSE {Ok(g.gsizes)},
           g.glengths)

\* A _distrib_normal that stretches in every mode
LinearContainer__distrib_normal_groups_Stretch(full, g, mode) ==
  IF Sum(g.gweights) = 0
  THEN DistribNormalGroups(full, g, Repeat(1, Len(g.gweights)))
  ELSE DistribNormalGroups(full, g, g.gweights)

LinearContainer__distrib_normal_groups(full, g, mode) ==
  IF Sum(g.gweights) = 0
  THEN IF mode = "MODE_STRETCH"
       THEN DistribNormalGroups(full, g, Repeat(1, Len(g.gweights)))
       ELSE {Ok(LinearContainer__unpack_groups(g.gsizes, g.glengths))}
  ELSE DistribNormalGroups(full, g, g.gweights)

LinearContainer__distrib_normal(full, initial, mins, advances, weights, sweights, mode) ==
  LinearContainer__distrib_normal_groups(
    full, LinearContainer__make_groups(initial, mins, advances, weights, sweights),
    mode)

\* The items whose even share exceeds their size
Fitting(initial, distr) ==
  SelectSeq([n \in 1..Len(initial) |-> n], LAMBDA n : initial[n] < distr[n])

\* distr with the items that do not fit at their sizes and the fitting ones
\* at the shares ndis
Refit(initial, distr, fitting, ndis) ==
  [n \in 1..Len(distr) |->
     IF InSeq(n, fitting) THEN ndis[IndexOf(n, fitting)] ELSE initial[n]]

RECURSIVE LinearContainer__distrib_equal_loop(_, _, _)

\* One round of the loop, with the fitting items collected
EqualRound(full, initial, distr, fitting) ==
  IF fitting = <<>> THEN Ok(initial)
  ELSE LinearContainer__distrib_equal_loop(
         full, initial,
         Refit(initial, distr, fitting,
               linear_distrib(full - (Sum(initial)
                                      - Sum([j \in 1..Len(fitting) |->
                                               initial[fitting[j]]])),
                              Len(fitting)).r))

\* The loop of _distrib_equal
LinearContainer__distrib_equal_loop(full, initial, distr) ==
  IF \A n \in 1..Len(initial) : initial[n] <= distr[n] THEN Ok(distr)
  ELSE EqualRound(full, initial, distr, Fitting(initial, distr))

\* A _distrib_equal that leaves the degraded sizes as they are
EqualShrink_Never(full, g, d) == {d}

\* if sum(distr) > full: distr = _shrink(...)
EqualShrink(full, g, d) ==
  IF d.err # NoErr THEN {d}
  ELSE IF Sum(d.r) > full
       THEN LinearContainer__shrink(d.r, full, g.gmins, Repeat(1, Len(g.gmins)))
  ELSE {d}

LinearContainer__distrib_equal_groups(full, initial, g, mode) ==
  Unpacked(IF mode = "MODE_EQUAL_FORCE"
           THEN {linear_distrib(full, Len(initial))}
           ELSE EqualShrink(full, g,
                            LinearContainer__distrib_equal_loop(
                              full, initial,
                              linear_distrib(full, Len(initial)).r)),
           g.glengths)

LinearContainer__distrib_equal(full, initial, mins, advances, weights, sweights, mode) ==
  LinearContainer__distrib_equal_groups(
    full, initial,
    LinearContainer__make_groups(initial, mins, advances, weights, sweights), mode)

Modes == {"MODE_NORMAL", "MODE_STRETCH", "MODE_EQUAL", "MODE_EQUAL_FORCE"}

LinearContainer_distribute(full, initial, mins, advances, weights, sweights, mode) ==
  IF ~ (Len(initial) = Len(mins) /\ Len(mins) = Len(advances)
        /\ Len(advances) = Len(weights) /\ Len(weights) = Len(sweights))
  THEN {Exc("ValueError")}
  ELSE IF initial = <<>> THEN {Ok(<<>>)}
  ELSE IF mode \in {"MODE_NORMAL", "MODE_STRETCH"}
       THEN LinearContainer__distrib_normal(full, initial, mins, advances,
                                            weights, sweights, mode)
  ELSE IF mode \in {"MODE_EQUAL", "MODE_EQUAL_FORCE"}
       THEN LinearContainer__distrib_equal(full, initial, mins, advances,
                                           weights, sweights, mode)
  ELSE {Exc("ValueError")}

\* The items distribute() is called with: the preferred and the minimum
\* size of a child and its shrinking weight.
DistItems ==
  [size : {2}, min : {1, 2}, sw : {0, 1, 2}]
  \cup [size : {3}, min : {1}, sw : {0, 1, 2}]

\* The advances and the growing weights of a list of n items: every item
\* advancing or the last one staying; no item growing, the first, or all.
AdvancesOf(n) == {Repeat(1, n), [i \in 1..n |-> IF i = n THEN 0 ELSE 1]}
WeightsOf(n) == {Repeat(0, n), [i \in 1..n |-> IF i = 1 THEN 1 ELSE 0], Repeat(1, n)}

\* The sizes to distribute
DistFulls == 0..10

\* The lengths of the lists
DistLengths == 1..3

\* distribute(full, initial, mins, advances, weights, sweights, mode) is
\* called.
DistributeInit ==
  /\ HeapIs(Fresh(<<>>))
  /\ \E n \in DistLengths :
       \E items \in [1..n -> DistItems], advances \in AdvancesOf(n),
          weights \in WeightsOf(n), full \in DistFulls, mode \in Modes :
         args = [fn |-> "distribute", full |-> full,
                 initial |-> [i \in 1..n |-> items[i].size],
                 mins |-> [i \in 1..n |-> items[i].min],
                 advances |-> advances, weights |-> weights,
                 sweights |-> [i \in 1..n |-> items[i].sw],
                 mode |-> mode]
  /\ out = NoOut

Call_distribute ==
  /\ args.fn = "distribute"
  /\ out = NoOut
  /\ out' \in LinearContainer_distribute(
                args.full, args.initial, args.mins, args.advances,
                args.weights, args.sweights, args.mode)
  /\ UNCHANGED <<heap, args>>

DistributeNext == Call_distribute

SpecDistribute == DistributeInit /\ [][DistributeNext]_vars

\* The call of distribute() has returned, in one of the modes.
Distributed(modes) == Returned("distribute") /\ args.mode \in modes

Items == 1..Len(args.initial)
AllAdvance == \A i \in Items : args.advances[i] # 0

\* The groups of the call
Groups ==
  LinearContainer__make_groups(args.initial, args.mins, args.advances,
                               args.weights, args.sweights)

\* C12: in NORMAL or STRETCH mode, with all items advancing,
\* mins[i] <= sizes[i], all shrink weights nonzero and any growth weights,
\* sum(mins) <= full < sum(sizes) gives result[i] >= mins[i] for every i and
\* sum(result) = full.
C12_ShrinkConverges ==
  (/\ Distributed({"MODE_NORMAL", "MODE_STRETCH"})
   /\ AllAdvance
   /\ \A i \in Items : args.mins[i] <= args.initial[i] /\ args.sweights[i] # 0
   /\ Sum(args.mins) <= args.full /\ args.full < Sum(args.initial)) =>
     /\ out.err = NoErr
     /\ \A i \in Items : out.r[i] >= args.mins[i]
     /\ Sum(out.r) = args.full

\* The result of group g: that of its first item.
GroupResult ==
  [g \in 1..Len(Groups.glengths) |->
     out.r[1 + Sum(SubSeq(Groups.glengths, 1, g - 1))]]

\* The sizes the groups are to end at when the shrinking runs out: the
\* minimum where the group shrinks, the size where it does not.
ShrunkGroups ==
  [g \in 1..Len(Groups.gmins) |->
     IF Groups.gsweights[g] # 0 THEN Groups.gmins[g] ELSE Groups.gsizes[g]]

C16_Call ==
  /\ Distributed({"MODE_NORMAL"})
  /\ \A i \in Items : args.weights[i] = 0 /\ args.sweights[i] = 1
  /\ args.full = Sum(args.initial)

\* The statement of C16 as made: the sizes come back item by item, whatever
\* the advances.
C16_SizesUnchanged == C16_Call => out = Ok(args.initial)

\* C16: distribute(full, sizes, mins, advances, growth weights 0, shrink
\* weights 1, NORMAL) with full = sum(sizes) returns sizes item by item
\* when every item advances; an item that does not advance shares the group
\* of the item before it, and every item of a group gets the largest size
\* of the group.
C16_GroupSizes ==
  C16_Call =>
    /\ out = Ok(LinearContainer__unpack_groups(Groups.gsizes, Groups.glengths))
    /\ AllAdvance => out.r = args.initial

\* Three advancing items of different sizes come back unchanged.
C16_Witness ==
  /\ C16_Call
  /\ AllAdvance
  /\ args.initial = <<2, 3, 2>>
  /\ out.r = <<2, 3, 2>>

\* C17: in STRETCH mode with all growth weights zero and full > the sum of
\* the group sizes, each group's result is its size plus a non-negative
\* increment, the increments of two groups differ by at most 1, and the
\* group results sum to full; so when all items advance (the children of a
\* horizontal container) and full >= the sum of the sizes, the results sum
\* to full and each is >= its size.
C17_EvenSurplus ==
  /\ (/\ Distributed({"MODE_STRETCH"})
      /\ \A i \in Items : args.weights[i] = 0
      /\ args.full > Sum(Groups.gsizes)) =>
        /\ out.err = NoErr
        /\ out.r = LinearContainer__unpack_groups(GroupResult, Groups.glengths)
        /\ Sum(GroupResult) = args.full
        /\ \A g, h \in 1..Len(GroupResult) :
             /\ GroupResult[g] >= Groups.gsizes[g]
             /\ (GroupResult[g] - Groups.gsizes[g])
                  - (GroupResult[h] - Groups.gsizes[h]) <= 1
  /\ (/\ Distributed({"MODE_STRETCH"})
      /\ \A i \in Items : args.weights[i] = 0
      /\ AllAdvance
      /\ args.full >= Sum(args.initial)) =>
        /\ out.err = NoErr
        /\ Sum(out.r) = args.full
        /\ \A i \in Items : out.r[i] >= args.initial[i]

\* A surplus of 4 over three groups: two get 1 and one gets 2.
C17_Witness ==
  /\ Distributed({"MODE_STRETCH"})
  /\ AllAdvance
  /\ args.weights = <<0, 0, 0>>
  /\ args.full = Sum(args.initial) + 4
  /\ \E i, j \in Items : out.r[i] - args.initial[i] = 1
                         /\ out.r[j] - args.initial[j] = 2


-----------------------------------------------------------------------------
\* The sizes a relayout() assigns to the children.  Positions and sizes are
\* pairs <<x, y>>.

Min(a, b) == IF a <= b THEN a ELSE b

zbound(v, m) == Max(0, Min(v, m))
addpos(p1, p2) == <<p1[1] + p2[1], p1[2] + p2[2]>>
subpos(p1, p2) == <<p1[1] - p2[1], p1[2] - p2[2]>>
minpos(p1, p2) == <<Min(p1[1], p2[1]), Min(p1[2], p2[2])>>
maxpos(p1, p2) == <<Max(p1[1], p2[1]), Max(p1[2], p2[2])>>

\* Container.relayout: every child gets the container's size, cut down to
\* the child's preferred size.
Container_relayout_sizes(size, prefs) ==
  [i \in 1..Len(prefs) |-> minpos(size, prefs[i])]

\* AlignContainer.calc_wbox_1d, the size it returns: scale is 0 for
\* SCALE_COMPRESS and 1 for SCALE_STRETCH.
AlignContainer_calc_wbox_1d(pref, avl, scale) ==
  IF avl < pref THEN avl ELSE pref + (avl - pref) * scale

\* AlignContainer.relayout with _pads = (0, 0, 0, 0)
AlignContainer_relayout_sizes(size, prefs, scale) ==
  [i \in 1..Len(prefs) |->
     <<AlignContainer_calc_wbox_1d(prefs[i][1], size[1], scale[1]),
       AlignContainer_calc_wbox_1d(prefs[i][2], size[2], scale[2])>>]

\* Viewport.relayout, the size of the child, were restrict_size ignored
Viewport_child_size_Pref(size, cps, cms, restrict_size) == maxpos(size, cps)

\* Viewport.relayout, the size of the child
Viewport_child_size(size, cps, cms, restrict_size) ==
  maxpos(size, IF restrict_size THEN maxpos(minpos(size, cps), cms)
               ELSE cps)

Viewport_relayout_sizes(size, prefs, mins, restrict_size) ==
  [i \in 1..Len(prefs) |->
     Viewport_child_size(size, prefs[i], mins[i], restrict_size)]

\* The sizes of the model: lengths along one axis, pairs of them, and the
\* (prefsize, minsize) of a child, the minimum no larger than the
\* preferred size.
Lengths == 0..2
Pairs == Lengths \X Lengths
ChildSizes ==
  {c \in [pref : Pairs, min : Pairs] :
     c.min[1] <= c.pref[1] /\ c.min[2] <= c.pref[2]}
RelayoutKinds == {"Container", "AlignContainer", "Viewport"}

\* A container of one of the classes has been given a size, and holds one
\* or two children (one, for the single-child classes).
RelayoutInit ==
  /\ HeapIs(Fresh(<<>>))
  /\ \E cls \in RelayoutKinds, size \in Pairs, n \in 1..2,
        scale \in {0, 1} \X {0, 1}, restrict_size \in BOOLEAN :
       \E ch \in [1..n -> ChildSizes] :
         /\ n = 2 => cls = "Container"
         /\ cls # "AlignContainer" => scale = <<0, 0>>
         /\ cls # "Viewport" => ~ restrict_size
         /\ args = [fn |-> "relayout", kind |-> cls, size |-> size,
                    prefs |-> [i \in 1..n |-> ch[i].pref],
                    mins |-> [i \in 1..n |-> ch[i].min],
                    scale |-> scale, restrict_size |-> restrict_size]
  /\ out = NoOut

\* relayout() of the container
Call_relayout ==
  /\ args.fn = "relayout"
  /\ out = NoOut
  /\ out' = Ok(IF args.kind = "Container"
               THEN Container_relayout_sizes(args.size, args.prefs)
               ELSE IF args.kind = "AlignContainer"
               THEN AlignContainer_relayout_sizes(args.size, args.prefs,
                                                  args.scale)
               ELSE Viewport_relayout_sizes(args.size, args.prefs, args.mins,
                                            args.restrict_size))
  /\ UNCHANGED <<heap, args>>

RelayoutNext == Call_relayout

SpecRelayout == RelayoutInit /\ [][RelayoutNext]_vars

\* C18: after relayout() of a container, whatever its size, every child has
\* been assigned a size that is at least its minsize on both axes.
C18_AtLeastMinimum ==
  Returned("relayout") =>
    \A i \in 1..Len(args.mins) :
      out.r[i][1] >= args.mins[i][1] /\ out.r[i][2] >= args.mins[i][2]


-----------------------------------------------------------------------------
\* The scrolling state of a Viewport.  The viewport is part of a tree that
\* make() has laid out, so that its pos and size are set; v is the record of
\* its size, padsize, maxscrollpos and scrollpos, and of the restrict_size it
\* was constructed with.

\* Viewport.calc_shift along one axis, were it to put the left edge of the
\* rectangle at the left edge of the window.
Viewport_calc_shift_1d_Align(offset, maxoffs, size, r, l) ==
  zbound(r, maxoffs)

\* Viewport.calc_shift along one axis, were it to bring a rectangle that is
\* beyond the end of the window to the start of the window.
Viewport_calc_shift_1d_Start(offset, maxoffs, size, r, l) ==
  zbound(IF r < offset \/ r + l > offset + size THEN r ELSE offset, maxoffs)

\* Viewport.calc_shift along one axis, for the rectangle [r, r + l)
Viewport_calc_shift_1d(offset, maxoffs, size, r, l) ==
  zbound(Min(Max(offset, r + l - size), r), maxoffs)

Viewport_calc_shift(offset, maxoffs, size, rect) ==
  <<Viewport_calc_shift_1d(offset[1], maxoffs[1], size[1], rect[1], rect[3]),
    Viewport_calc_shift_1d(offset[2], maxoffs[2], size[2], rect[2], rect[4])>>

\* The clamping at the end of Viewport.relayout: it forgets the upper bound.
Viewport_clamp_NoMax(scrollpos, maxscrollpos) ==
  <<Max(0, scrollpos[1]), Max(0, scrollpos[2])>>

\* The clamping at the end of Viewport.relayout
Viewport_clamp(scrollpos, maxscrollpos) ==
  <<zbound(scrollpos[1], maxscrollpos[1]),
    zbound(scrollpos[2], maxscrollpos[2])>>

\* Viewport.relayout once padsize is known
Viewport_relayout_pad(v, padsize) ==
  [v EXCEPT !.padsize = padsize,
            !.maxscrollpos = subpos(padsize, v.size),
            !.scrollpos = Viewport_clamp(v.scrollpos,
                                         subpos(padsize, v.size))]

\* Viewport.relayout: chn is the list of the (pref, min) sizes of the
\* children, empty or of one child.
Viewport_relayout_scroll(v, chn) ==
  IF chn = <<>> THEN Viewport_relayout_pad(v, v.size)
  ELSE Viewport_relayout_pad(
         v, maxpos(Viewport_child_size(v.size, chn[1].pref, chn[1].min,
                                       v.restrict_size), v.size))

\* Scrollable.scroll
Scrollable_scroll(v, newpos, rel) ==
  [v EXCEPT !.scrollpos =
     maxpos(<<0, 0>>,
            minpos(IF rel THEN addpos(v.scrollpos, newpos) ELSE newpos,
                   v.maxscrollpos))]

\* Scrollable.scroll_event
Scrollable_scroll_event(v, ev) ==
  IF ev = "KEY_UP" THEN Scrollable_scroll(v, <<0, -1>>, TRUE)
  ELSE IF ev = "KEY_DOWN" THEN Scrollable_scroll(v, <<0, 1>>, TRUE)
  ELSE IF ev = "KEY_LEFT" THEN Scrollable_scroll(v, <<-1, 0>>, TRUE)
  ELSE IF ev = "KEY_RIGHT" THEN Scrollable_scroll(v, <<1, 0>>, TRUE)
  ELSE v

\* Viewport.grab_input, the scrolling position: the empty tuple stands for
\* a rect or a pos that is None.
Viewport_grab_input_scroll(v, rect, pos) ==
  IF rect = <<>> THEN v
  ELSE [v EXCEPT !.scrollpos =
          IF pos = <<>>
          THEN Viewport_calc_shift(v.scrollpos, v.maxscrollpos, v.size, rect)
          ELSE Viewport_calc_shift(
                 Viewport_calc_shift(v.scrollpos, v.maxscrollpos, v.size,
                                     rect),
                 v.maxscrollpos, v.size, <<pos[1], pos[2], 1, 1>>)]

ScrollKeys == {"KEY_UP", "KEY_DOWN", "KEY_LEFT", "KEY_RIGHT", "Tab"}
ScrollTargets == (-1..3) \X (-1..3)
Rects == (0..3) \X (0..3) \X (1..2) \X (1..2)

\* The call made last, with the scrolling state it found
Called(fn, v) ==
  [fn |-> fn, scrollpos |-> v.scrollpos, maxscrollpos |-> v.maxscrollpos]

\* A Viewport as constructed, given a size by its parent.
ViewportInit ==
  /\ HeapIs(Fresh(<<>>))
  /\ args = NoArgs
  /\ \E size \in Pairs, restrict_size \in BOOLEAN :
       out = Ok([size |-> size, padsize |-> <<0, 0>>,
                 maxscrollpos |-> <<0, 0>>, scrollpos |-> <<0, 0>>,
                 restrict_size |-> restrict_size])

\* The parent assigns a size, the child (if any) reports its sizes, and
\* relayout() runs.
ViewportRelayout ==
  \E size \in Pairs, chn \in {<<>>} \cup {<<c>> : c \in ChildSizes} :
    /\ out' = Ok(Viewport_relayout_scroll([out.r EXCEPT !.size = size],
                                           chn))
    /\ args' = Called("Viewport.relayout", out.r)
    /\ UNCHANGED heap

ViewportScroll ==
  \E newpos \in ScrollTargets, rel \in BOOLEAN :
    /\ out' = Ok(Scrollable_scroll(out.r, newpos, rel))
    /\ args' = Called("Scrollable.scroll", out.r)
    /\ UNCHANGED heap

ViewportScrollEvent ==
  \E ev \in ScrollKeys :
    /\ out' = Ok(Scrollable_scroll_event(out.r, ev))
    /\ args' = Called("Scrollable.scroll_event", out.r)
    /\ UNCHANGED heap

ViewportGrabInput ==
  \E rect \in Rects \cup {<<>>}, pos \in Pairs \cup {<<>>} :
    /\ out' = Ok(Viewport_grab_input_scroll(out.r, rect, pos))
    /\ args' = Called("Viewport.grab_input", out.r)
    /\ UNCHANGED heap

ViewportNext ==
  ViewportRelayout \/ ViewportScroll \/ ViewportScrollEvent
    \/ ViewportGrabInput

SpecViewport == ViewportInit /\ [][ViewportNext]_vars

-----------------------------------------------------------------------------
\* The scrolling state of a TextWidget (a Label): v is the record of its
\* _natsize, maxscrollpos and scrollpos.  The widget has no border, prefix
\* or suffix, no cmaxsize and no cminsize, so that prefsize is _natsize.

\* The _natsize of a text: the length of its longest line and the number of
\* its lines, which is at least one.
NatSizes == (0..3) \X (1..3)

\* The text setter
TextWidget_text_natsize(v, natsize) == [v EXCEPT !.natsize = natsize]

\* TextWidget.make, with the size the parent has assigned
TextWidget_make_scroll(v, size) ==
  [v EXCEPT !.maxscrollpos = subpos(v.natsize, size)]

\* A TextWidget as constructed, with some text.
TextInit ==
  /\ HeapIs(Fresh(<<>>))
  /\ args = NoArgs
  /\ \E natsize \in NatSizes :
       out = Ok([natsize |-> natsize, maxscrollpos |-> <<0, 0>>,
                 scrollpos |-> <<0, 0>>])

TextSet ==
  \E natsize \in NatSizes :
    /\ out' = Ok(TextWidget_text_natsize(out.r, natsize))
    /\ args' = Called("TextWidget.text", out.r)
    /\ UNCHANGED heap

TextMake ==
  \E size \in Pairs :
    /\ out' = Ok(TextWidget_make_scroll(out.r, size))
    /\ args' = Called("TextWidget.make", out.r)
    /\ UNCHANGED heap

TextScroll ==
  \E newpos \in ScrollTargets, rel \in BOOLEAN :
    /\ out' = Ok(Scrollable_scroll(out.r, newpos, rel))
    /\ args' = Called("Scrollable.scroll", out.r)
    /\ UNCHANGED heap

TextNext == TextSet \/ TextMake \/ TextScroll

SpecText == TextInit /\ [][TextNext]_vars

\* C20: whatever text changes, make() and scroll() calls a TextWidget has
\* seen, its maxscrollpos is at least 0 and its scrollpos lies between 0 and
\* maxscrollpos, on both axes.
C20_ScrollableState ==
  \A a \in 1..2 :
    /\ 0 <= out.r.maxscrollpos[a]
    /\ 0 <= out.r.scrollpos[a]
    /\ out.r.scrollpos[a] <= out.r.maxscrollpos[a]


-----------------------------------------------------------------------------
\* Single calls of scroll() and grab_input() on a Viewport that relayout()
\* has left with a consistent scrolling state.  v carries, besides the
\* fields above, the position pos of the viewport on the screen.

shiftrect(r, p) == <<r[1] + p[1], r[2] + p[2], r[3], r[4]>>
unshiftrect(r, p) == <<r[1] - p[1], r[2] - p[2], r[3], r[4]>>

\* boundrect, after the first and after the second if statement
boundrect_left(r, b) ==
  IF r[1] < b[1] THEN <<b[1], r[2], r[3] - b[1] + r[1], r[4]>> ELSE r

boundrect_top(r, b) ==
  IF r[2] < b[2] THEN <<r[1], b[2], r[3], r[4] - b[2] + r[2]>> ELSE r

boundrect_end(r, b) == <<r[1], r[2], zbound(r[3], b[3]), zbound(r[4], b[4])>>

boundrect(r, b) == boundrect_end(boundrect_top(boundrect_left(r, b), b), b)

\* Widget.rect
Widget_rect(v) == <<v.pos[1], v.pos[2], v.size[1], v.size[2]>>

\* The outcome of a call: the scrolling position, the value returned,
\* whether Scrollable.on_scroll has run (it calls update() on every bound
\* scrollbar), whether the viewport has invalidated itself, and the rect and
\* pos handed on to the parent.
Outcome(scrollpos, ret, notified, invalid, rect, pos) ==
  [scrollpos |-> scrollpos, ret |-> ret, notified |-> notified,
   invalid |-> invalid, rect |-> rect, pos |-> pos]

\* The update flag of Scrollable.scroll, were it always set
Scrollable_scroll_update_Always(v, newpos) == TRUE

\* The update flag of Scrollable.scroll
Scrollable_scroll_update(v, newpos) == newpos # v.scrollpos

\* Scrollable.scroll with Viewport.on_scroll, which runs when update is set,
\* and invalidates when the position differs from oldpos.

Viewport_scroll(v, newpos, rel) ==
  Outcome(Scrollable_scroll(v, newpos, rel).scrollpos,
          Scrollable_scroll_update(
            v, Scrollable_scroll(v, newpos, rel).scrollpos),
          Scrollable_scroll_update(
            v, Scrollable_scroll(v, newpos, rel).scrollpos),
          Scrollable_scroll_update(
            v, Scrollable_scroll(v, newpos, rel).scrollpos)
            /\ Scrollable_scroll(v, newpos, rel).scrollpos # v.scrollpos,
          <<>>, <<>>)

\* Viewport.grab_input: the cursor position handed on
Viewport_grab_input_pos(v, effpos, pos) ==
  IF pos = <<>> THEN <<>>
  ELSE addpos(effpos, <<zbound(pos[1], v.padsize[1] - 1),
                        zbound(pos[2], v.padsize[2] - 1)>>)

\* Viewport.grab_input once new_offset is known
Viewport_grab_input_at(v, new_offset, rect, pos) ==
  Outcome(new_offset, FALSE,
          rect # <<>> /\ new_offset # v.scrollpos,
          rect # <<>> /\ new_offset # v.scrollpos,
          IF rect = <<>> THEN <<>>
          ELSE boundrect(shiftrect(rect, subpos(v.pos, new_offset)),
                         Widget_rect(v)),
          Viewport_grab_input_pos(v, subpos(v.pos, new_offset), pos))

Viewport_grab_input_call(v, rect, pos) ==
  Viewport_grab_input_at(v, Viewport_grab_input_scroll(v, rect, pos).scrollpos,
                         rect, pos)

\* The viewports: sizes up to 2 by 1, buffers up to 3 by 2, at one of two
\* places on the screen, with every scrolling position relayout() allows.
ViewSizes == (0..2) \X (0..1)
PadSizes == (0..3) \X (0..2)
ViewPlaces == {<<0, 0>>, <<2, 1>>}
Viewports ==
  {v \in [size : ViewSizes, padsize : PadSizes, maxscrollpos : PadSizes,
          scrollpos : PadSizes, pos : ViewPlaces] :
     /\ v.padsize = maxpos(v.padsize, v.size)
     /\ v.maxscrollpos = subpos(v.padsize, v.size)
     /\ v.scrollpos = Viewport_clamp(v.scrollpos, v.maxscrollpos)}

\* The rectangles and cursor positions asked for: from one cell before the
\* buffer to one cell beyond it.
AskedRects == (-1..3) \X (-1..2) \X (0..3) \X (0..2)
AskedCursors == {<<>>} \cup ((0..3) \X (0..2))

ViewportCallsInit ==
  /\ HeapIs(Fresh(<<>>))
  /\ out = NoOut
  /\ \E v \in Viewports :
       \/ \E newpos \in ScrollTargets, rel \in BOOLEAN :
            args = [fn |-> "scroll", v |-> v, newpos |-> newpos, rel |-> rel]
       \/ \E rect \in AskedRects \cup {<<>>}, pos \in AskedCursors :
            args = [fn |-> "grab_input", v |-> v, rect |-> rect, pos |-> pos]

Call_scroll ==
  /\ args.fn = "scroll"
  /\ out = NoOut
  /\ out' = Ok(Viewport_scroll(args.v, args.newpos, args.rel))
  /\ UNCHANGED <<heap, args>>

Call_grab_input ==
  /\ args.fn = "grab_input"
  /\ out = NoOut
  /\ out' = Ok(Viewport_grab_input_call(args.v, args.rect, args.pos))
  /\ UNCHANGED <<heap, args>>

ViewportCallsNext == Call_scroll \/ Call_grab_input

SpecViewportCalls == ViewportCallsInit /\ [][ViewportCallsNext]_vars


\* The rectangle lies inside the window [scrollpos, scrollpos + size] of
\* the viewport, on both axes.
InWindow(v, scrollpos, rect) ==
  \A a \in 1..2 :
    /\ scrollpos[a] <= rect[a]
    /\ rect[a] + rect[a + 2] <= scrollpos[a] + v.size[a]

\* The cell of the cursor
Cell(pos) == <<pos[1], pos[2], 1, 1>>

\* grab_input() has been called with a rectangle
Grabbed == Returned("grab_input") /\ args.rect # <<>>

\* C21: when grab_input() is called with a rectangle inside the visible
\* window, and with no cursor or with a cursor whose cell is inside the
\* window, the scrolling position is unchanged, no scrollbar has been
\* notified and the viewport has not invalidated itself.
C21_AlreadyVisible ==
  (/\ Grabbed
   /\ InWindow(args.v, args.v.scrollpos, args.rect)
   /\ args.pos # <<>> => InWindow(args.v, args.v.scrollpos, Cell(args.pos)))
  => /\ out.r.scrollpos = args.v.scrollpos
     /\ ~ out.r.notified
     /\ ~ out.r.invalid

\* A call with a visible rectangle and a visible cursor, on a viewport that
\* is scrolled and could scroll further either way along the x axis.
C21_Witness ==
  /\ Grabbed
  /\ args.pos # <<>>
  /\ InWindow(args.v, args.v.scrollpos, args.rect)
  /\ InWindow(args.v, args.v.scrollpos, Cell(args.pos))
  /\ args.rect[3] > 0 /\ args.rect[4] > 0
  /\ args.v.scrollpos[1] > 0
  /\ args.v.scrollpos[1] < args.v.maxscrollpos[1]


\* The position a call of scroll() asks for
Requested == IF args.rel THEN addpos(args.v.scrollpos, args.newpos)
             ELSE args.newpos

\* x brought into the interval [0, m]
Clamped(x, m) == IF x < 0 THEN 0 ELSE IF x > m THEN m ELSE x

\* C22: scroll() sets scrollpos to the requested position clamped into
\* [0, maxscrollpos]; it returns True exactly when that differs from the
\* previous position, and exactly then the scrollbars are notified and the
\* viewport is invalidated.
C22_Scroll ==
  Returned("scroll") =>
    /\ \A a \in 1..2 :
         out.r.scrollpos[a] = Clamped(Requested[a], args.v.maxscrollpos[a])
    /\ out.r.ret <=> out.r.scrollpos # args.v.scrollpos
    /\ out.r.notified <=> out.r.ret
    /\ out.r.invalid <=> out.r.ret

\* A relative scroll() further along the x axis, at its limit, has returned
\* False.
C22_Witness ==
  /\ Returned("scroll")
  /\ args.rel
  /\ args.v.maxscrollpos[1] > 0
  /\ args.v.scrollpos[1] = args.v.maxscrollpos[1]
  /\ args.newpos[1] > 0 /\ args.newpos[2] = 0
  /\ ~ out.r.ret


-----------------------------------------------------------------------------
\* Single calls of Viewport.relayout: the viewport is in a state an earlier
\* relayout() has left, its parent has assigned a new size, and it holds no
\* child or one child with the given (pref, min) sizes.

ViewportRelayoutInit ==
  /\ HeapIs(Fresh(<<>>))
  /\ out = NoOut
  /\ \E v \in Viewports, size \in ViewSizes, restrict_size \in BOOLEAN,
        chn \in {<<>>} \cup {<<c>> : c \in ChildSizes} :
       /\ v.pos = <<0, 0>>
       /\ args = [fn |-> "Viewport.relayout", chn |-> chn,
                  v |-> [size |-> size, padsize |-> v.padsize,
                         maxscrollpos |-> v.maxscrollpos,
                         scrollpos |-> v.scrollpos,
                         restrict_size |-> restrict_size]]

Call_Viewport_relayout ==
  /\ args.fn = "Viewport.relayout"
  /\ out = NoOut
  /\ out' = Ok(Viewport_relayout_scroll(args.v, args.chn))
  /\ UNCHANGED <<heap, args>>

ViewportRelayoutNext == Call_Viewport_relayout

SpecViewportRelayout == ViewportRelayoutInit /\ [][ViewportRelayoutNext]_vars

\* maxscrollpos is padsize - size, and not negative
MaxScrollFits ==
  /\ out.r.maxscrollpos = subpos(out.r.padsize, args.v.size)
  /\ out.r.maxscrollpos[1] >= 0 /\ out.r.maxscrollpos[2] >= 0

\* The statement of C23 as made: the buffer has the larger of the child's
\* preferred size and the viewport's size.
C23_PadIsPreferred ==
  Returned("Viewport.relayout") =>
    /\ MaxScrollFits
    /\ out.r.padsize = IF args.chn = <<>> THEN args.v.size
                       ELSE maxpos(args.chn[1].pref, args.v.size)

\* C23: after Viewport.relayout, padsize is the larger of the viewport's
\* size and the child's preferred size when restrict_size is off, the larger
\* of the viewport's size and the child's minimum size when it is on, and
\* the viewport's size when there is no child; maxscrollpos is padsize less
\* the viewport's size and never negative.
C23_PadSize ==
  Returned("Viewport.relayout") =>
    /\ MaxScrollFits
    /\ out.r.padsize =
         IF args.chn = <<>> THEN args.v.size
         ELSE IF args.v.restrict_size
         THEN maxpos(args.chn[1].min, args.v.size)
         ELSE maxpos(args.chn[1].pref, args.v.size)

\* A viewport that restricts its child has been laid out smaller than the
\* child would like and larger than the child needs, on the x axis.
C23_Witness ==
  /\ Returned("Viewport.relayout")
  /\ args.chn # <<>>
  /\ args.v.restrict_size
  /\ args.chn[1].min[1] < args.v.size[1]
  /\ args.v.size[1] < args.chn[1].pref[1]


-----------------------------------------------------------------------------
\* The binding of scrollbars.  b is the record of the scrollbars attribute
\* of every scrollable (sbs), of the bound attribute of every scrollbar
\* (bound), of the number of bind/unbind calls entered since the outermost
\* call (calls) and of the error raised, if any; "none" stands for None.

Scrollables == {"s1", "s2"}
Scrollbars == {"v1", "v2", "h1"}

\* scrollbar.dir.vert as the key of the scrollbars dictionary
DirOf(sb) == IF sb = "h1" THEN "horiz" ELSE "vert"

\* The depth of recursion after which the interpreter gives up
RecursionLimit == 12

\* A call of bind or unbind is entered.
Enter(b) ==
  IF b.calls >= RecursionLimit THEN [b EXCEPT !.err = "RecursionError"]
  ELSE [b EXCEPT !.calls = @ + 1]

\* self.scrollbars[dir] = None in Scrollable.unbind, were it left out
Scrollable_unbind_slot_Keep(b, S, dir) == b

\* self.scrollbars[dir] = None in Scrollable.unbind
Scrollable_unbind_slot(b, S, dir) == [b EXCEPT !.sbs[S][dir] = "none"]

RECURSIVE Scrollable_bind(_, _, _)
RECURSIVE Scrollable_unbind(_, _, _)
RECURSIVE Scrollbar_bind(_, _, _)
RECURSIVE Scrollbar_unbind(_, _, _)

\* Scrollable.bind once the scrollbar bound before has been unbound
Scrollable_bind_set(b, S, sb) ==
  IF b.err # NoErr THEN b
  ELSE Scrollbar_bind([b EXCEPT !.sbs[S][DirOf(sb)] = sb], sb, S)

Scrollable_bind(b, S, sb) ==
  IF Enter(b).err # NoErr \/ b.sbs[S][DirOf(sb)] = sb THEN Enter(b)
  ELSE IF b.sbs[S][DirOf(sb)] # "none"
  THEN Scrollable_bind_set(
         Scrollable_unbind(Enter(b), S, b.sbs[S][DirOf(sb)]), S, sb)
  ELSE Scrollable_bind_set(Enter(b), S, sb)

Scrollable_unbind(b, S, sb) ==
  IF Enter(b).err # NoErr THEN Enter(b)
  ELSE IF b.sbs[S]["vert"] = sb
  THEN Scrollbar_unbind(Scrollable_unbind_slot(Enter(b), S, "vert"), sb, S)
  ELSE IF b.sbs[S]["horiz"] = sb
  THEN Scrollbar_unbind(Scrollable_unbind_slot(Enter(b), S, "horiz"), sb, S)
  ELSE Enter(b)

\* Scrollbar.bind once the scrollbar has been unbound from its old parent
Scrollbar_bind_set(b, sb, par) ==
  IF b.err # NoErr THEN b
  ELSE Scrollable_bind([b EXCEPT !.bound[sb] = par], par, sb)

Scrollbar_bind(b, sb, par) ==
  IF Enter(b).err # NoErr \/ b.bound[sb] = par THEN Enter(b)
  ELSE IF b.bound[sb] # "none"
  THEN Scrollbar_bind_set(Scrollbar_unbind(Enter(b), sb, b.bound[sb]),
                          sb, par)
  ELSE Scrollbar_bind_set(Enter(b), sb, par)

Scrollbar_unbind(b, sb, par) ==
  IF Enter(b).err # NoErr \/ par # b.bound[sb] THEN Enter(b)
  ELSE Scrollable_unbind([Enter(b) EXCEPT !.bound[sb] = "none"], par, sb)

\* The state a call starts from, and the call made last with the state
\* it found
Outermost(b) == [b EXCEPT !.calls = 0]
BindCall(fn, S, sb) == [fn |-> fn, S |-> S, sb |-> sb, b |-> out.r]

\* Scrollables and scrollbars as constructed
BindInit ==
  /\ HeapIs(Fresh(<<>>))
  /\ args = NoArgs
  /\ out = Ok([sbs |-> [S \in Scrollables |->
                          [d \in {"vert", "horiz"} |-> "none"]],
               bound |-> [sb \in Scrollbars |-> "none"],
               calls |-> 0, err |-> NoErr])

ScrollableBind ==
  \E S \in Scrollables, sb \in Scrollbars :
    /\ out' = Ok(Scrollable_bind(Outermost(out.r), S, sb))
    /\ args' = BindCall("Scrollable.bind", S, sb)
    /\ UNCHANGED heap

ScrollableUnbind ==
  \E S \in Scrollables, sb \in Scrollbars :
    /\ out' = Ok(Scrollable_unbind(Outermost(out.r), S, sb))
    /\ args' = BindCall("Scrollable.unbind", S, sb)
    /\ UNCHANGED heap

ScrollbarBind ==
  \E S \in Scrollables, sb \in Scrollbars :
    /\ out' = Ok(Scrollbar_bind(Outermost(out.r), sb, S))
    /\ args' = BindCall("Scrollbar.bind", S, sb)
    /\ UNCHANGED heap

ScrollbarUnbind ==
  \E S \in Scrollables, sb \in Scrollbars :
    /\ out' = Ok(Scrollbar_unbind(Outermost(out.r), sb, S))
    /\ args' = BindCall("Scrollbar.unbind", S, sb)
    /\ UNCHANGED heap

BindNext ==
  ScrollableBind \/ ScrollableUnbind \/ ScrollbarBind \/ ScrollbarUnbind

SpecBind == BindInit /\ [][BindNext]_vars

\* C24: a scrollbar's bound attribute is a scrollable exactly when that
\* scrollable holds the scrollbar in the slot of the scrollbar's direction;
\* a call of bind leaves the two bound to each other, a call of unbind
\* leaves them not bound to each other, and every call ends within the
\* recursion limit.
C24_Binding ==
  /\ out.r.err = NoErr
  /\ \A S \in Scrollables, sb \in Scrollbars :
       out.r.bound[sb] = S <=> out.r.sbs[S][DirOf(sb)] = sb
  /\ args.fn \in {"Scrollable.bind", "Scrollbar.bind"} =>
       out.r.bound[args.sb] = args.S
  /\ args.fn \in {"Scrollable.unbind", "Scrollbar.unbind"} =>
       out.r.bound[args.sb] # args.S

\* A scrollbar bound to one scrollable has been bound to another one that
\* held a different scrollbar of the same direction.
C24_Witness ==
  /\ args.fn = "Scrollable.bind"
  /\ args.b.bound[args.sb] \notin {"none", args.S}
  /\ args.b.sbs[args.S][DirOf(args.sb)] \notin {"none", args.sb}
  /\ out.r.bound[args.b.sbs[args.S][DirOf(args.sb)]] = "none"
  /\ out.r.sbs[args.b.bound[args.sb]][DirOf(args.sb)] = "none"


-----------------------------------------------------------------------------
\* A MarginContainer, a plain Container and three Buttons: widgets are
\* added to either container (into the centre or the top region of the
\* MarginContainer) and removed again.

MarginKinds == {<<"MarginContainer", "Container", "Button", "Button",
                  "Button">>}

MarginInit == \E k \in MarginKinds : Start(Fresh(k))

MarginNext == TreeAdd \/ TreeRemove

SpecMargin == MarginInit /\ [][MarginNext]_vars

MarginContainers == {c \in Ws : kind[c] = "MarginContainer"}

\* The slot map and the reverse map of c are inverse to each other, and the
\* widgets they hold are the children of c, each once.
SlotsMatch(c) ==
  /\ \A w \in Ws : slots[c][w] # None <=> InSeq(w, children[c])
  /\ \A i, j \in 1..Len(children[c]) :
       children[c][i] = children[c][j] => i = j
  /\ \A w \in Ws : slots[c][w] # None => revslots[c][slots[c][w]] = w
  /\ \A q \in Slots : revslots[c][q] # None => slots[c][revslots[c][q]] = q

\* The widget that held, before the last call, the slot the widget added
\* by that call holds now
Evicted(c) == pre.revslots[c][slots[c][last.b]]

\* C25: the slot map and the reverse map of a MarginContainer are inverse
\* bijections over its children, and an add() into an occupied slot has
\* removed the previous occupant from the container and cleared its parent.
C25_OnePerSlot ==
  \A c \in MarginContainers :
    /\ SlotsMatch(c)
    /\ (last.op = "add" /\ last.a = c /\ last.err = NoErr
          /\ Evicted(c) \notin {None, last.b})
       => ~ InSeq(Evicted(c), children[c]) /\ parent[Evicted(c)] = None

\* A widget that was in one region of the MarginContainer has been added
\* into another region, which a different widget held.
C25_Witness ==
  \E c \in MarginContainers :
    /\ last.op = "add" /\ last.a = c /\ last.err = NoErr
    /\ Evicted(c) \notin {None, last.b}
    /\ pre.slots[c][last.b] \notin {None, slots[c][last.b]}


-----------------------------------------------------------------------------
\* A StackContainer and three Buttons: the Buttons are added on layer 0 or
\* 1, removed, and moved to the other layer.  hist holds the children of
\* the StackContainer in the order in which they were inserted.

StackKinds == {<<"StackContainer", "Button", "Button", "Button">>}

StackInit == \E k \in StackKinds : Start(Fresh(k))

StackContainers == {c \in Ws : kind[c] = "StackContainer"}

\* q without x
Without(q, x) == SelectSeq(q, LAMBDA y : y # x)

\* One call from outside, which leaves the insertion order as given when it
\* raises nothing.
StackStep(t, op, a, b, order) ==
  /\ Commit(t)
  /\ last' = Call(op, a, b, FALSE, t)
  /\ hist' = IF t.err = NoErr THEN order ELSE hist

StackAdd ==
  \E c \in StackContainers, w \in Ws \ StackContainers, layer \in {0, 1} :
    StackStep(add(Cur, c, w, layer), "add", c, w,
              Append(Without(hist, w), w))

StackRemove ==
  \E c \in StackContainers, w \in Ws \ StackContainers :
    StackStep(remove(Cur, c, w), "remove", c, w, Without(hist, w))

StackSetLayer ==
  \E c \in StackContainers, w \in Ws \ StackContainers, layer \in {0, 1} :
    StackStep(StackContainer_set_layer(Cur, c, w, layer), "set_layer", c, w,
              hist)

StackNext == StackAdd \/ StackRemove \/ StackSetLayer

SpecStack == StackInit /\ [][StackNext]_vars

\* The children of c are sorted by layer.
SortedByLayer(c) ==
  \A i, j \in 1..Len(children[c]) :
    i < j => layers[c][children[c][i]] <= layers[c][children[c][j]]

\* C26: the children of a StackContainer are sorted by non-decreasing
\* layer, and two children on the same layer appear in the order in which
\* they were inserted.
C26_StackOrder ==
  \A c \in StackContainers :
    /\ SortedByLayer(c)
    /\ \A i, j \in 1..Len(children[c]) :
         (i < j /\ layers[c][children[c][i]] = layers[c][children[c][j]])
         => IndexOf(children[c][i], hist) < IndexOf(children[c][j], hist)


-----------------------------------------------------------------------------
\* RadioBoxes and RadioGroups.  r is the record of the _state and
\* _state_set of every RadioBox (st, set), of its group, and of the widgets
\* and the active widget of every RadioGroup; "none" stands for None, and
\* the states are written "None", "True" and "False".  The boxes are in no
\* container and have not been drawn, so that invalidate() and
\* Widget.delete() do nothing else.

RadioBoxes == {"r1", "r2", "r3"}
RadioGroups == {"g1", "g2"}
States == {"None", "True", "False"}

RECURSIVE RadioBox_state_set(_, _, _)
RECURSIVE RadioGroup__set_active(_, _, _)

\* A group that does not react to the states of its boxes
RadioGroup_on_set_Pass(r, g, w, value) == r

\* RadioGroup.on_set
RadioGroup_on_set(r, g, w, value) ==
  IF value # "True" THEN r ELSE RadioGroup__set_active(r, g, w)

\* RadioBox._set_state once _state is assigned
RadioBox__set_state(r, w, value) ==
  IF r.group[w] = "none" THEN r
  ELSE RadioGroup_on_set(r, r.group[w], w, value)

\* The setter of ToggleButton.state, for a RadioBox
RadioBox_state_set(r, w, value) ==
  RadioBox__set_state([r EXCEPT !.set[w] = TRUE, !.st[w] = value], w, value)

\* The getter of ToggleButton.state: the heap it leaves
RadioBox_state_get(r, w) ==
  IF r.set[w] THEN r ELSE RadioBox_state_set(r, w, r.st[w])

\* RadioGroup._set_active once the active widget has been switched off
RadioGroup__set_active_to(r, g, w) ==
  IF w = "none" THEN [r EXCEPT !.active[g] = w]
  ELSE RadioBox_state_set([r EXCEPT !.active[g] = w], w, "True")

RadioGroup__set_active(r, g, w) ==
  IF w = r.active[g] THEN r
  ELSE IF r.active[g] # "none"
  THEN RadioGroup__set_active_to(
         RadioBox_state_set(r, r.active[g], "False"), g, w)
  ELSE RadioGroup__set_active_to(r, g, w)

BaseRadioGroup_remove(r, g, w) ==
  IF ~ InSeq(w, r.widgets[g]) THEN r
  ELSE [r EXCEPT !.group[w] = "none", !.widgets[g] = RemoveFirst(@, w)]

\* RadioGroup.remove once BaseRadioGroup.remove has returned
RadioGroup_remove_active(r, g, w) ==
  IF w = r.active[g] THEN RadioGroup__set_active(r, g, "none") ELSE r

RadioGroup_remove(r, g, w) ==
  RadioGroup_remove_active(BaseRadioGroup_remove(r, g, w), g, w)

\* BaseRadioGroup.add once the widget has left its old group
BaseRadioGroup_add_append(r, g, w) ==
  [r EXCEPT !.group[w] = g, !.widgets[g] = Append(@, w)]

BaseRadioGroup_add(r, g, w) ==
  IF InSeq(w, r.widgets[g]) THEN r
  ELSE IF r.group[w] # "none"
  THEN BaseRadioGroup_add_append(RadioGroup_remove(r, r.group[w], w), g, w)
  ELSE BaseRadioGroup_add_append(r, g, w)

\* RadioGroup.add once widget.state has been read
RadioGroup_add_active(r, g, w) ==
  IF r.st[w] = "True" THEN RadioGroup__set_active(r, g, w) ELSE r

RadioGroup_add(r, g, w) ==
  RadioGroup_add_active(RadioBox_state_get(BaseRadioGroup_add(r, g, w), w),
                        g, w)

\* RadioBox.on_activate
RadioBox_on_activate(r, w) == RadioBox_state_set(r, w, "True")

\* RadioBox.delete
RadioBox_delete(r, w) ==
  IF r.group[w] = "none" THEN r ELSE RadioGroup_remove(r, r.group[w], w)

\* The call made last, with the state it found
RadioCall(fn, g, w, value) ==
  [fn |-> fn, g |-> g, w |-> w, value |-> value, r |-> out.r]

\* The boxes as constructed, each with some state, and the empty groups
RadioInit ==
  /\ HeapIs(Fresh(<<>>))
  /\ args = NoArgs
  /\ \E st \in [RadioBoxes -> States] :
       out = Ok([st |-> st, set |-> [w \in RadioBoxes |-> FALSE],
                 group |-> [w \in RadioBoxes |-> "none"],
                 widgets |-> [g \in RadioGroups |-> <<>>],
                 active |-> [g \in RadioGroups |-> "none"]])

RadioAdd ==
  \E g \in RadioGroups, w \in RadioBoxes :
    /\ out' = Ok(RadioGroup_add(out.r, g, w))
    /\ args' = RadioCall("RadioGroup.add", g, w, "None")
    /\ UNCHANGED heap

RadioRemove ==
  \E g \in RadioGroups, w \in RadioBoxes :
    /\ out' = Ok(RadioGroup_remove(out.r, g, w))
    /\ args' = RadioCall("RadioGroup.remove", g, w, "None")
    /\ UNCHANGED heap

RadioSetState ==
  \E w \in RadioBoxes, value \in {"True", "False"} :
    /\ out' = Ok(RadioBox_state_set(out.r, w, value))
    /\ args' = RadioCall("RadioBox.state", out.r.group[w], w, value)
    /\ UNCHANGED heap

RadioActivate ==
  \E w \in RadioBoxes :
    /\ out' = Ok(RadioBox_on_activate(out.r, w))
    /\ args' = RadioCall("RadioBox.on_activate", out.r.group[w], w, "True")
    /\ UNCHANGED heap

RadioDelete ==
  \E w \in RadioBoxes :
    /\ out' = Ok(RadioBox_delete(out.r, w))
    /\ args' = RadioCall("RadioBox.delete", out.r.group[w], w, "None")
    /\ UNCHANGED heap

RadioNext ==
  RadioAdd \/ RadioRemove \/ RadioSetState \/ RadioActivate \/ RadioDelete

SpecRadio == RadioInit /\ [][RadioNext]_vars

\* The members of g whose state is true
Chosen(r, g) == {w \in RadioBoxes : InSeq(w, r.widgets[g]) /\ r.st[w] = "True"}

\* C27: in every RadioGroup at most one member has a true state, and a
\* member whose state is true is the active widget of the group; setting a
\* member's state to true leaves the member active before with the state
\* False, and removing the active member leaves the group without an
\* active widget and the member with a state that is not true.
C27_MutualExclusion ==
  /\ \A g \in RadioGroups :
       /\ Cardinality(Chosen(out.r, g)) <= 1
       /\ \A w \in Chosen(out.r, g) : out.r.active[g] = w
  /\ (/\ args.fn \in {"RadioBox.state", "RadioBox.on_activate"}
      /\ args.value = "True"
      /\ args.g # "none"
      /\ args.r.active[args.g] \notin {"none", args.w})
     => /\ out.r.st[args.r.active[args.g]] = "False"
        /\ out.r.active[args.g] = args.w
  /\ (/\ args.fn \in {"RadioGroup.remove", "RadioBox.delete"}
      /\ args.g # "none"
      /\ args.r.active[args.g] = args.w)
     => /\ out.r.active[args.g] = "none"
        /\ out.r.st[args.w] # "True"

\* A member has been set to true while another member of its group was
\* active with a true state.
C27_Witness ==
  /\ args.fn = "RadioBox.state"
  /\ args.value = "True"
  /\ args.g # "none"
  /\ args.r.active[args.g] \notin {"none", args.w}
  /\ args.r.st[args.r.active[args.g]] = "True"
  /\ out.r.st[args.w] = "True"


-----------------------------------------------------------------------------
\* draw() of a container, in the states of SpecInval.

\* The call made last was c.draw(win) of a container, and it returned.
DrewContainer == last.op = "draw" /\ last.err = NoErr /\ last.a \in Containers

\* As often as w.draw_self() was entered
TimesDrawn(w) == Cardinality({i \in 1..Len(last.drawn) : last.drawn[i] = w})

\* A valid container is left alone; an invalid one is valid on return, and
\* its draw_self() is called, once, exactly when valid_self was false.
DrawContract ==
  DrewContainer =>
    IF pre.vd[last.a]
    THEN last.drawn = <<>> /\ vd = pre.vd /\ vs = pre.vs
    ELSE /\ vd[last.a] /\ vs[last.a]
         /\ TimesDrawn(last.a) = (IF pre.vs[last.a] THEN 0 ELSE 1)

\* The widgets below c whose display need not be drawn anew: the valid
\* ones, unless a Viewport above them draws them to a pad it has just made.
KeepsDisplay(w) ==
  /\ w \in Subtree(pre, last.a) \ {last.a}
  /\ pre.vd[w] /\ pre.vs[w]
  /\ \A v \in Path(pre, w) \cap Subtree(pre, last.a) :
       pre.kind[v] = "Viewport" /\ v # w => pre.pad[v]

-----------------------------------------------------------------------------
\* grab_input() of a Viewport with a rectangle that fits, in the states of
\* SpecViewportCalls.

\* The rectangle lies inside the buffer and is no larger than the viewport.
Fits(v, rect) ==
  \A a \in 1..2 :
    /\ 0 <= rect[a]
    /\ rect[a] + rect[a + 2] <= v.padsize[a]
    /\ rect[a + 2] <= v.size[a]

\* The distance between two scrolling positions along one axis
Distance(p, q) == IF p >= q THEN p - q ELSE q - p

\* The scrolling positions along the axis a that show the rectangle
Showing(v, rect, a) ==
  {p \in 0..v.maxscrollpos[a] :
     p <= rect[a] /\ rect[a] + rect[a + 2] <= p + v.size[a]}

\* C29: after grab_input() with no cursor position and a rectangle inside
\* the buffer that is no larger than the viewport, the rectangle is inside
\* the window [scrollpos, scrollpos + size], scrollpos is within
\* [0, maxscrollpos], and along each axis no position that shows the
\* rectangle is nearer to the previous one (so that the position is kept
\* along an axis where the rectangle was visible).
C29_EnsureVisible ==
  (Grabbed /\ args.pos = <<>> /\ Fits(args.v, args.rect)) =>
    /\ InWindow(args.v, out.r.scrollpos, args.rect)
    /\ \A a \in 1..2 :
         /\ out.r.scrollpos[a] \in 0..args.v.maxscrollpos[a]
         /\ \A p \in Showing(args.v, args.rect, a) :
              Distance(out.r.scrollpos[a], args.v.scrollpos[a])
                <= Distance(p, args.v.scrollpos[a])
         /\ args.v.scrollpos[a] \in Showing(args.v, args.rect, a)
            => out.r.scrollpos[a] = args.v.scrollpos[a]

\* A rectangle narrower than the viewport, beyond the right edge of the
\* window, has been brought into view.
C29_Witness ==
  /\ Grabbed /\ args.pos = <<>> /\ Fits(args.v, args.rect)
  /\ args.rect[3] > 0
  /\ args.rect[3] < args.v.size[1]
  /\ args.rect[1] + args.rect[3] > args.v.scrollpos[1] + args.v.size[1]
  /\ out.r.scrollpos[1] > args.v.scrollpos[1]
  /\ out.r.notified


-----------------------------------------------------------------------------
\* The rectangle a Viewport hands on to its parent, in the states of
\* SpecViewportCalls.

\* The four sides of r are inside b.
Inside(r, b) ==
  \A a \in 1..2 : b[a] <= r[a] /\ r[a] + r[a + 2] <= b[a] + b[a + 2]

\* C30: the rectangle grab_input() hands on to the parent is the requested
\* one moved by pos - scrollpos and bounded by the viewport's rectangle,
\* and its four sides are inside the viewport's rectangle, whatever the
\* rectangle and the cursor position asked for.
C30_ForwardedInside ==
  Grabbed =>
    /\ out.r.rect = boundrect(shiftrect(args.rect,
                                        subpos(args.v.pos, out.r.scrollpos)),
                              Widget_rect(args.v))
    /\ Inside(out.r.rect, Widget_rect(args.v))


-----------------------------------------------------------------------------
\* LinearContainer._make_boxes along one axis: the sizes distribute() gives
\* and the offsets of the walk that follows it.

\* The for loop of _make_boxes: the boxes so far, the cursor at cp, item k
\* next
RECURSIVE LinearContainer__make_boxes_walk(_, _, _, _, _)
LinearContainer__make_boxes_walk(bxs, cp, k, esizes, advances) ==
  IF k > Len(esizes) THEN bxs
  ELSE LinearContainer__make_boxes_walk(
         Append(bxs, [cp |-> cp, s |-> esizes[k]]),
         cp + esizes[k] * advances[k], k + 1, esizes, advances)

LinearContainer__make_boxes_1d(full, initial, mins, advances, weights, sweights, mode) ==
  {IF o.err = NoErr
   THEN Ok(LinearContainer__make_boxes_walk(<<>>, 0, 1, o.r, advances))
   ELSE o :
     o \in LinearContainer_distribute(full, initial, mins, advances,
                                      weights, sweights, mode)}

\* The children: preferred sizes 2 and 3, minimum 1, shrinking weight 1,
\* with every combination of rules.
BoxSizes == {2, 3}
BoxAdvances(n) == [1..n -> {0, 1}]

BoxesInit ==
  /\ HeapIs(Fresh(<<>>))
  /\ \E n \in DistLengths :
       \E initial \in [1..n -> BoxSizes], advances \in BoxAdvances(n),
          weights \in WeightsOf(n), full \in DistFulls, mode \in Modes :
         args = [fn |-> "_make_boxes", full |-> full, initial |-> initial,
                 mins |-> Repeat(1, n), advances |-> advances,
                 weights |-> weights, sweights |-> Repeat(1, n),
                 mode |-> mode]
  /\ out = NoOut

Call_make_boxes ==
  /\ args.fn = "_make_boxes"
  /\ out = NoOut
  /\ out' \in LinearContainer__make_boxes_1d(
                args.full, args.initial, args.mins, args.advances,
                args.weights, args.sweights, args.mode)
  /\ UNCHANGED <<heap, args>>

BoxesNext == Call_make_boxes

SpecBoxes == BoxesInit /\ [][BoxesNext]_vars

\* The group of item i: the first one that the lengths of the groups up to
\* it reach i
GroupOf(i) ==
  CHOOSE g \in 1..Len(Groups.glengths) :
    /\ Sum(SubSeq(Groups.glengths, 1, g)) >= i
    /\ Sum(SubSeq(Groups.glengths, 1, g - 1)) < i

\* C31: two consecutive children are in the same group exactly when the
\* earlier one's rule does not advance, that is when the walk places them
\* at the same offset; children at the same offset have the same size, and
\* a child whose predecessor advances starts where the predecessor ends.
C31_GroupsAreSlots ==
  (Returned("_make_boxes") /\ out.err = NoErr) =>
    \A i \in 1..(Len(args.initial) - 1) :
      /\ (GroupOf(i) = GroupOf(i + 1)) <=> (args.advances[i] = 0)
      /\ GroupOf(i) = GroupOf(i + 1) => out.r[i].cp = out.r[i + 1].cp
      /\ args.advances[i] = 0 => out.r[i].s = out.r[i + 1].s
      /\ args.advances[i] # 0 => out.r[i + 1].cp = out.r[i].cp + out.r[i].s


-----------------------------------------------------------------------------
\* distribute() in MODE_EQUAL, every item advancing: preferred sizes 1, 3
\* and 6, with the minimum 1 or the preferred size, default weights.

EqualItems == {[size |-> 1, min |-> 1], [size |-> 3, min |-> 1],
               [size |-> 3, min |-> 3], [size |-> 6, min |-> 1],
               [size |-> 6, min |-> 6]}

EqualInit ==
  /\ HeapIs(Fresh(<<>>))
  /\ \E n \in 1..MaxItems :
       \E items \in [1..n -> EqualItems], full \in 0..MaxFull :
         args = [fn |-> "distribute", full |-> full,
                 initial |-> [i \in 1..n |-> items[i].size],
                 mins |-> [i \in 1..n |-> items[i].min],
                 advances |-> Repeat(1, n), weights |-> Repeat(0, n),
                 sweights |-> Repeat(1, n), mode |-> "MODE_EQUAL"]
  /\ out = NoOut

SpecEqual == EqualInit /\ [][DistributeNext]_vars

\* The even shares the call starts with, and the sizes the degrade loop of
\* the call ends with
EvenShares == linear_distrib(args.full, Len(args.initial)).r
Degraded ==
  LinearContainer__distrib_equal_loop(args.full, args.initial, EvenShares)

\* The items that got more than their preferred size
Widened == {i \in Items : out.r[i] > args.initial[i]}

\* The items that are given their even share or more in no round: the ones
\* below the even shares the call starts with
BelowShare == {i \in Items : args.initial[i] < EvenShares[i]}

-----------------------------------------------------------------------------
\* The loops of distribute(), round by round.  The state of a call is the
\* loop it is in (phase), the list the loop works on (r), the shrinking
\* weights _shrink was given (sw), the rounds each loop has begun (erounds,
\* srounds) and the number of items still split evenly, or of groups still
\* shrinking, before the round begun last and now (was, left).

MaxRounds == 8

LoopState(phase, r, sw, erounds, srounds, was, left, err) ==
  [phase |-> phase, r |-> r, sw |-> sw, erounds |-> erounds,
   srounds |-> srounds, was |-> was, left |-> left, err |-> err]

\* _shrink is entered with the list r.
ShrinkEnter(st, r, gmins, sw) ==
  LoopState("shrink", r, sw, st.erounds, 0, Len(sw),
            Len(ShrinkIndices(r, gmins, sw)), NoErr)

\* The loops are over.
LoopsDone(st, r, err) ==
  LoopState("done", r, st.sw, st.erounds, st.srounds, st.was, st.left, err)

\* _distrib_normal and _distrib_equal up to their loops
LoopStart(full, initial, g, mode) ==
  IF mode \in {"MODE_NORMAL", "MODE_STRETCH"}
  THEN IF (Sum(g.gweights) = 0 /\ mode # "MODE_STRETCH")
          \/ full - Sum(g.gsizes) >= 0
       THEN LoopState("done", g.gsizes, g.gsweights, 0, 0, 0, 0, NoErr)
       ELSE ShrinkEnter(LoopState("shrink", g.gsizes, g.gsweights, 0, 0, 0, 0, NoErr),
                        g.gsizes, g.gmins, g.gsweights)
  ELSE IF mode = "MODE_EQUAL"
  THEN LoopState("equal", linear_distrib(full, Len(initial)).r, g.gsweights,
                 0, 0, Len(initial), Len(initial), NoErr)
  ELSE LoopState("done", linear_distrib(full, Len(initial)).r, g.gsweights,
                 0, 0, 0, 0, NoErr)

\* _distrib_equal behind its loop, which has left distr
EqualLeave(st, full, g, distr) ==
  IF Sum(distr) > full
  THEN ShrinkEnter(st, distr, g.gmins, Repeat(1, Len(g.gmins)))
  ELSE LoopsDone(st, distr, NoErr)

\* One round of the loop of _distrib_equal
EqualLoopRound(st, full, initial, g) ==
  IF \A n \in 1..Len(initial) : initial[n] <= st.r[n]
  THEN EqualLeave([st EXCEPT !.erounds = @ + 1], full, g, st.r)
  ELSE IF Fitting(initial, st.r) = <<>>
  THEN EqualLeave([st EXCEPT !.erounds = @ + 1, !.was = st.left, !.left = 0],
                  full, g, initial)
  ELSE [st EXCEPT !.erounds = @ + 1, !.was = st.left,
                  !.left = Len(Fitting(initial, st.r)),
                  !.r = Refit(initial, st.r, Fitting(initial, st.r),
                              linear_distrib(
                                full - (Sum(initial)
                                        - Sum([j \in 1..Len(Fitting(initial, st.r)) |->
                                                 initial[Fitting(initial, st.r)[j]]])),
                                Len(Fitting(initial, st.r))).r)]

\* One round of the loop of _shrink, with the increments wd
ShrinkLoopApplied(st, full, gmins, r) ==
  IF Sum(r) = full THEN LoopsDone([st EXCEPT !.srounds = @ + 1], r, NoErr)
  ELSE [st EXCEPT !.srounds = @ + 1, !.r = r, !.was = st.left,
                  !.left = Len(ShrinkIndices(r, gmins, st.sw))]

ShrinkLoopRound(st, full, gmins) ==
  IF ShrinkIndices(st.r, gmins, st.sw) = <<>>
  THEN {LoopsDone([st EXCEPT !.srounds = @ + 1], st.r, NoErr)}
  ELSE {IF wd.err # NoErr
        THEN LoopsDone([st EXCEPT !.srounds = @ + 1], st.r, wd.err)
        ELSE ShrinkLoopApplied(
               st, full, gmins,
               ShrinkApply(st.r, gmins, ShrinkIndices(st.r, gmins, st.sw), wd.r)) :
        wd \in weight_distrib(
                 full - Sum(st.r),
                 [j \in 1..Len(ShrinkIndices(st.r, gmins, st.sw)) |->
                    st.sw[ShrinkIndices(st.r, gmins, st.sw)[j]]])}

\* The children: preferred sizes 1, 3 and 6 with the minimum 1, one that
\* does not shrink and one whose minimum is its preferred size.
RoundItems ==
  [size : {1, 3, 6}, min : {1}, sw : {1}]
  \cup {[size |-> 6, min |-> 1, sw |-> 0], [size |-> 3, min |-> 3, sw |-> 1]}

RoundsInit ==
  /\ HeapIs(Fresh(<<>>))
  /\ \E n \in DistLengths :
       \E items \in [1..n -> RoundItems], advances \in AdvancesOf(n),
          full \in DistFulls, mode \in Modes :
         /\ args = [fn |-> "distribute", full |-> full,
                    initial |-> [i \in 1..n |-> items[i].size],
                    mins |-> [i \in 1..n |-> items[i].min],
                    advances |-> advances, weights |-> Repeat(0, n),
                    sweights |-> [i \in 1..n |-> items[i].sw],
                    mode |-> mode]
         /\ out = Ok(LoopStart(args.full, args.initial, Groups, args.mode))

EqualStep ==
  /\ out.r.phase = "equal"
  /\ out.r.erounds < MaxRounds
  /\ out' = Ok(EqualLoopRound(out.r, args.full, args.initial, Groups))
  /\ UNCHANGED <<heap, args>>

ShrinkStep ==
  /\ out.r.phase = "shrink"
  /\ out.r.srounds < MaxRounds
  /\ \E st \in ShrinkLoopRound(out.r, args.full, Groups.gmins) : out' = Ok(st)
  /\ UNCHANGED <<heap, args>>

RoundsNext == EqualStep \/ ShrinkStep

SpecRounds == RoundsInit /\ [][RoundsNext]_vars /\ WF_vars(RoundsNext)

\* Every loop has begun at most one round more than it has items or groups,
\* and a round that did not end its loop has left fewer items split evenly,
\* or fewer groups above their minimum, than there were before it.
RoundsBounded ==
  /\ out.r.erounds <= Len(args.initial) + 1
  /\ out.r.srounds <= Len(out.r.sw) + 1
  /\ (out.r.phase = "equal" /\ out.r.erounds > 0) => out.r.left < out.r.was
  /\ (out.r.phase = "shrink" /\ out.r.srounds > 0) => out.r.left < out.r.was

\* The loops, when the call has run one, are left with what distribute()
\* returns.
LoopsAgree ==
  (out.r.phase = "done" /\ out.r.erounds + out.r.srounds > 0) =>
    (IF out.r.err # NoErr THEN Exc(out.r.err)
     ELSE Ok(LinearContainer__unpack_groups(out.r.r, Groups.glengths)))
    \in LinearContainer_distribute(args.full, args.initial, args.mins,
                                   args.advances, args.weights,
                                   args.sweights, args.mode)

\* C33: distribute() terminates in every mode: the loop of _shrink ends
\* within one round more than there are groups, each round that does not
\* end it leaving fewer groups above their minimum, and the degrade loop of
\* MODE_EQUAL ends within one round more than there are items, each round
\* that does not end it leaving fewer items in the even split.
C33_Terminates == [](RoundsBounded /\ LoopsAgree) /\ <>(out.r.phase = "done")

\* A call in MODE_EQUAL has ended after two rounds of each of its loops.
C33_Witness ==
  /\ out.r.phase = "done"
  /\ out.r.erounds >= 2
  /\ out.r.srounds >= 2

----------------------------------------------------------------------------
(* The per-child configuration of LinearContainer, PlacerContainer and     *)
(* GridContainer under add and remove.                                      *)

ConfigKinds == {<<"LinearContainer", "Button", "Button">>,
                <<"PlacerContainer", "Button", "Button">>,
                <<"GridContainer", "Button", "Button">>}

ConfigInit == \E k \in ConfigKinds : Start(Fresh(k))

ConfigNext == TreeAdd \/ TreeRemove

SpecConfig == ConfigInit /\ [][ConfigNext]_vars

\* The widgets c has a configuration entry for, in each of its maps.
Configured(c) ==
  IF kind[c] = "LinearContainer" THEN {cfg[c]}
  ELSE IF kind[c] = "PlacerContainer"
       THEN {cfg[c], {w \in Ws : layers[c][w] # NoLayer}}
  ELSE IF kind[c] = "GridContainer"
       THEN {{w \in Ws : slots[c][w] # None},
             {revslots[c][p] : p \in Slots} \ {None}}
  ELSE {}

\* Each child of the GridContainer c is in the cell its entry names, and no
\* cell holds a widget whose entry names another cell.
CellsMatch(c) ==
  /\ \A w \in Ws : slots[c][w] # None => revslots[c][slots[c][w]] = w
  /\ \A p \in Slots : revslots[c][p] # None => slots[c][revslots[c][p]] = p

\* C34: after any sequence of add and remove calls on a LinearContainer,
\* PlacerContainer or GridContainer, the widgets that have a configuration
\* entry are exactly the children, and in a GridContainer each child is in
\* the cell its entry names and each cell holds at most one child.
C34_ConfigInStep ==
  \A c \in Containers :
    /\ \A m \in Configured(c) : m = {w \in Ws : InSeq(w, children[c])}
    /\ kind[c] = "GridContainer" => CellsMatch(c)

----------------------------------------------------------------------------
(* Pinpoint invalidation and redraw, on the tree of the scene laid out and  *)
(* drawn; the containers 1 and 2 may be VisibilityContainers.               *)

LostKinds == PathKinds \cup {"VisibilityContainer"}

\* The tree of the scene, its VisibilityContainers constructed with the
\* visibility v, made and drawn by the root.
DrawnScene(k1, k2, first, v) ==
  LET f == Fresh(<<k1, k2, "Button", "Widget", "Widget">>)
  IN WidgetRoot_redraw(WidgetRoot_make(
       SceneAdd(SceneAdd(SceneAdd(SceneAdd(
         add([f EXCEPT !.visibility = [w \in DOMAIN @ |-> v]], ROOT, 1, None),
         1, 2, 1, first), 1, 5, 2, first), 2, 3, 1, first), 2, 4, 2, first)))

LostInit ==
  \E k1 \in LostKinds, k2 \in LostKinds, first \in {POS_CENTER, POS_TOP},
     v \in Visibilities :
    /\ ~ Failed(DrawnScene(k1, k2, first, v))
    /\ Start(DrawnScene(k1, k2, first, v))

\* x.invalidate(), on a widget of the tree
PinpointInvalidate ==
  \E x \in InTree : Step(invalidate(Cur, x, FALSE, None), "invalidate", x,
                         None, FALSE)

LostNext == PinpointInvalidate \/ RootRedraw

SpecLost == LostInit /\ [][LostNext]_vars

\* C35: in a tree that was laid out and drawn by the root, after any
\* pinpoint invalidate() calls, a widget with valid_display false has the
\* root and all its ancestors with valid_display false, and after
\* WidgetRoot.redraw() every widget of the tree has valid_display true.
C35_NoLostInvalidation ==
  /\ \A w \in InTree :
       ~ vd[w] => /\ ~ rvd
                  /\ \A a \in AncestorsOf(Cur, w) \ {ROOT, None} : ~ vd[a]
  /\ (last.op = "redraw" /\ last.err = NoErr) => \A w \in InTree : vd[w]

----------------------------------------------------------------------------
(* Layout invalidation, add and remove after WidgetRoot.make(): the root    *)
(* hosts the container 1, which holds the container 2 and the leaf 4; 2     *)
(* holds the button 3.                                                      *)

RelaidKinds == {"Container", "VisibilityContainer"}

\* The tree of the scene, its VisibilityContainers constructed with the
\* visibility v, made by the root.
MadeScene(k1, k2, v) ==
  LET f == Fresh(<<k1, k2, "Button", "Widget">>)
  IN WidgetRoot_make(
       SceneAdd(SceneAdd(SceneAdd(
         add([f EXCEPT !.visibility = [w \in DOMAIN @ |-> v]], ROOT, 1, None),
         1, 2, 1, None), 1, 4, 2, None), 2, 3, 1, None))

RelaidInit ==
  \E k1 \in RelaidKinds, k2 \in RelaidKinds, v \in Visibilities :
    /\ ~ Failed(MadeScene(k1, k2, v))
    /\ Start(MadeScene(k1, k2, v))

\* x.invalidate_layout(), on the root or a widget of the tree
TreeInvalidateLayout ==
  \E x \in InTree \cup {ROOT} :
    Step(invalidate_layout(Cur, x), "invalidate_layout", x, None, FALSE)

\* c.add(w) and c.remove(w), on a container of the tree and a leaf
RelaidAdd ==
  \E c \in InTree \cap Containers, w \in Ws \ Containers :
    /\ Step(add(Cur, c, w, None), "add", c, w, FALSE)

RelaidRemove ==
  \E c \in InTree \cap Containers, w \in Ws :
    /\ InSeq(w, children[c])
    /\ Step(remove(Cur, c, w), "remove", c, w, FALSE)

RelaidNext == LayoutMake \/ TreeInvalidateLayout \/ RelaidAdd \/ RelaidRemove

SpecRelaid == RelaidInit /\ [][RelaidNext]_vars

\* C36: after WidgetRoot.make() every widget of the tree has valid_layout
\* true, and after any invalidate_layout(), add() and remove() calls a
\* widget of the tree with valid_layout false has the root and all its
\* ancestors with valid_layout false.
C36_NoLostLayout ==
  /\ (last.op \in {"init", "make"} /\ last.err = NoErr) =>
       rvl /\ \A w \in InTree : vl[w]
  /\ \A w \in InTree :
       ~ vl[w] => /\ ~ rvl
                  /\ \A a \in AncestorsOf(Cur, w) \ {ROOT, None} : ~ vl[a]

----------------------------------------------------------------------------
(* The size caches under changes of a text, reads of the sizes and          *)
(* WidgetRoot.make(): the root hosts the container 1, which holds the       *)
(* container 2 and the leaf 4; 2 holds the button 3.                        *)

\* Some size cache of x is filled.
Cached(s, x) == s.msz[x] \/ s.psz[x] \/ s.pres[x] \/ s.chms[x] \/ s.chps[x]

\* The text setter, with a text of another size: _text, _lines and _natsize
\* are set and the layout is invalidated.  The caches on the path to the
\* root that are still filled after it hold sizes of the old text.
TextWidget_text_set(s, w) ==
  LET t == invalidate_layout([s EXCEPT !.lines[w] = TRUE], w)
  IN [t EXCEPT !.stale = [x \in DOMAIN @ |->
                           @[x] \/ (x \in Path(t, w) /\ Cached(t, x))]]

StaleKinds == {"Container", "LinearContainer"}

\* The tree, built and not yet made.
StaleScene(k1, k2) ==
  SceneAdd(SceneAdd(SceneAdd(
    add(Fresh(<<k1, k2, "Button", "Widget">>), ROOT, 1, None),
    1, 2, 1, None), 1, 4, 2, None), 2, 3, 1, None)

StaleInit ==
  \E k1 \in StaleKinds, k2 \in StaleKinds : Start(StaleScene(k1, k2))

\* w.text = text, on a button of the tree
TextChange ==
  \E w \in InTree :
    /\ kind[w] = "Button"
    /\ Step(TextWidget_text_set(Cur, w), "text", w, None, FALSE)

StaleNext == LayoutMake \/ InvalidateLayout \/ ReadSize \/ TextChange

SpecStale == StaleInit /\ [][StaleNext]_vars

\* C37: for any interleaving of text changes, invalidate_layout() calls,
\* reads of minsize and prefsize and WidgetRoot.make(), the boxes a
\* LinearContainer of the tree has laid its children out with after make()
\* come from sizes of the children's current texts.
C37_NeverStale ==
  (last.op = "make" /\ last.err = NoErr) =>
    \A c \in InTree : (kind[c] = "LinearContainer" /\ boxes[c]) => ~ stale[c]

----------------------------------------------------------------------------
(* Invalidation of widgets that have been removed from the tree: the root   *)
(* hosts the container 1, which holds the container 2 and the button 4; 2   *)
(* holds the button 3; the tree is made and drawn.                          *)

DetachedInit ==
  Start(Built(<<"Container", "Container", "Button", "Button">>,
              <<<<ROOT, 1>>, <<1, 2>>, <<2, 3>>, <<1, 4>>>>))

\* c.remove(w), of a child
ChildRemove ==
  \E c \in Containers, w \in Ws :
    /\ InSeq(w, children[c])
    /\ Step(remove(Cur, c, w), "remove", c, w, FALSE)

\* x.invalidate(), on any widget, in the tree or not
WidgetInvalidate ==
  \E x \in Ws : Step(invalidate(Cur, x, FALSE, None), "invalidate", x,
                     None, FALSE)

\* x.invalidate_layout(), on any widget, in the tree or not
WidgetInvalidateLayout ==
  \E x \in Ws :
    Step(invalidate_layout(Cur, x), "invalidate_layout", x, None, FALSE)

DetachedNext ==
  \/ ChildRemove
  \/ WidgetInvalidate
  \/ WidgetInvalidateLayout
  \/ LayoutMake
  \/ RootRedraw

SpecDetached == DetachedInit /\ [][DetachedNext]_vars

\* The flags and size caches of every widget but w are as before the call.
OnlyOwn(w) ==
  \A x \in Ws \ {w} :
    /\ vd[x] = pre.vd[x] /\ vs[x] = pre.vs[x] /\ vl[x] = pre.vl[x]
    /\ msz[x] = pre.msz[x] /\ psz[x] = pre.psz[x]

\* C38: invalidate() or invalidate_layout() on a widget that was laid out
\* and drawn and then removed from its container (parent None) completes
\* without an error and changes only that widget's flags and caches.
C38_DetachedSafe ==
  (/\ last.op \in {"invalidate", "invalidate_layout"}
   /\ last.a \in Ws
   /\ pre.parent[last.a] = None
   /\ pre.vl[last.a] /\ pre.vd[last.a]) =>
    /\ last.err = NoErr
    /\ rvd = pre.rvd /\ rvl = pre.rvl
    /\ OnlyOwn(last.a)

----------------------------------------------------------------------------
(* The root's focus(rev) followed by focus(not rev)                         *)

\* The heap after the root's focus() in the direction opposite to the last
\* call's, as the main loop delivers it.
FocusBack == WidgetRoot_focus(WidgetRoot_main(Cur), ~ last.flag)

\* C39: in a tree of nested Containers with at least two focusable leaves
\* and one leaf L focused, WidgetRoot.focus(rev) followed by
\* WidgetRoot.focus(not rev) both return True and leave exactly L focused,
\* with the focus record of every container as before the first call, also
\* when the first call wraps around the end of the traversal order.
C39_FocusInverse ==
  (/\ last.op = "rootfocus"
   /\ Len(Leaves(pre, pre.widget)) >= 2
   /\ Cardinality(PreFocused) = 1) =>
    /\ last.err = NoErr /\ last.ret
    /\ FocusedLeaves # PreFocused
    /\ FocusBack.err = NoErr /\ FocusBack.ret
    /\ FocusBack.bfoc = pre.bfoc
    /\ FocusBack.foc = pre.foc

\* The first call wraps from the last leaf, in a nested container, to the
\* first, and the call back returns to it.
C39_Witness ==
  LET L == Leaves(pre, pre.widget)
  IN /\ last.op = "rootfocus" /\ ~ last.flag /\ last.ret
     /\ Len(L) >= 3
     /\ PreFocused = {L[Len(L)]}
     /\ pre.parent[L[Len(L)]] # pre.widget
     /\ FocusedLeaves = {L[1]}
     /\ FocusBack.bfoc = pre.bfoc /\ FocusBack.foc = pre.foc

====
